---- MODULE Spec2Model ----
(***************************************************************************)
(* Model of the TeamSheldon admin panel scripts (Scouting-V2):             *)
(*   Activity.js   ActivityLogsManager, performLogout, TeamSheldonAdmin    *)
(*   Dashboard.js  Dashboard, performLogout                                *)
(*   Scouting.js   ScoutingManager, SecurityManager, Analytics,            *)
(*                 performLogout                                           *)
(*   notifications.js  NotificationManager                                 *)
(* The browser is one tab: localStorage and the cookie jar outlive a page, *)
(* every other object lives as long as the page that constructed it.       *)
(* Strings the code takes apart (search text, names, dates) are sequences  *)
(* of one-character strings; the other strings are TLA+ strings.           *)
(***************************************************************************)
EXTENDS Integers, Sequences, FiniteSets, TLC

\* JavaScript's null / undefined / "" for a value the code only tests with
\* || or !: every falsy value behaves alike there.
NULL == "<null>"

\* !!v for a string or an absent value
Truthy(v) == v # NULL /\ v # ""

\* a || b
Or2(a, b) == IF Truthy(a) THEN a ELSE b

Or3(a, b, c) == Or2(a, Or2(b, c))

(***************************************************************************)
(* Bounds                                                                  *)
(***************************************************************************)
\* The clock advances in steps of one minute up to MaxMinutes minutes.
MaxMinutes == 6

(***************************************************************************)
(* Program constants                                                       *)
(***************************************************************************)
Minute == 60 * 1000

\* TeamSheldonAdmin.SESSION_TIMEOUT (milliseconds)
SESSION_TIMEOUT == 5 * 60 * 1000

\* TeamSheldonAdmin.LOCKOUT_DURATION (milliseconds)
LOCKOUT_DURATION == 15 * 60 * 1000

VARIABLES
    \* ---- browser state shared by all pages --------------------------------
    ls,              \* localStorage: key -> value or NULL (absent)
    cookie,          \* the admin_token cookie: [token, expires]
    now,             \* Date.now(), milliseconds
    isDevelopment,   \* hostname localhost / 127.0.0.1, port 3000 or file:
    page,            \* the document loaded in the tab
    pendingRedirect, \* a window.location.href assignment not yet completed
    attemptsStore,   \* localStorage['admin_login_attempts'], parsed
    \* ---- page objects ------------------------------------------------------
    login,           \* TeamSheldonAdmin (index.html)
    dash,            \* Dashboard (Dashboard.html)
    analytics,       \* Analytics (Analytics.html)
    activity,        \* ActivityLogsManager.loadUserInfo (Activity.html)
    hist,            \* history of the session (not program state)
    \* ---- ScoutingManager (Scouting.html) -----------------------------------
    sm,              \* the ScoutingManager object
    sdom,            \* the elements of Scouting.html the manager reads and writes
    teamsFetch,      \* GET /api/teams requests in flight
    shist,           \* history (not program state)
    \* ---- ActivityLogsManager (Activity.html) -------------------------------
    alm,             \* the ActivityLogsManager object
    adom,            \* the elements of Activity.html it reads and writes
    logCalls,        \* loadActivityLogs calls in flight, oldest first
    lhist,           \* history (not program state)
    \* ---- updateUserDisplay -------------------------------------------------
    userInfo,        \* the argument of updateUserDisplay
    sidebar,         \* sidebarUserName / sidebarUserRole / sidebarUserEmail
    \* ---- Dashboard.safeFetch -----------------------------------------------
    sf,              \* one safeFetch call
    \* ---- NotificationManager (notifications.js) ---------------------------
    nstore,          \* localStorage['admin_notifications'], parsed
    nm,              \* the NotificationManager of the page and its container
    nhist            \* history (not program state)

authVars == <<ls, cookie, now, isDevelopment, page, pendingRedirect,
              attemptsStore, login, dash, analytics, activity, hist>>

scoutVars == <<sm, sdom, teamsFetch, shist>>

logVars == <<alm, adom, logCalls, lhist>>

userVars == <<userInfo, sidebar>>

fetchVars == <<sf>>

notifVars == <<nstore, nm, nhist>>

vars == <<authVars, scoutVars, logVars, userVars, fetchVars, notifVars>>

\* What an operation of one page leaves alone: the objects of the others
NotAuth == <<scoutVars, logVars, userVars, fetchVars, notifVars>>

NotScout == <<authVars, logVars, userVars, fetchVars, notifVars>>

NotLogs == <<authVars, scoutVars, userVars, fetchVars, notifVars>>

NotUser == <<authVars, scoutVars, logVars, fetchVars, notifVars>>

NotFetch == <<authVars, scoutVars, logVars, userVars, notifVars>>

\* the clock apart, which notifications.js reads
NotNotif == <<ls, cookie, isDevelopment, page, pendingRedirect, attemptsStore,
              login, dash, analytics, activity, hist,
              scoutVars, logVars, userVars, fetchVars>>

(***************************************************************************)
(* Strings as sequences of characters                                      *)
(***************************************************************************)
\* The characters in use, in the order of their UTF-16 code units
Alphabet == <<" ", "-", "0", "1", "2", "3", "4", "5", "6", "7", "8", "9",
              "A", "B", "H", "L", "T", "U",
              "a", "b", "e", "g", "h", "i", "k", "l", "m", "n", "o", "s", "t",
              "u", "w">>

CharCode(c) == CHOOSE i \in 1..Len(Alphabet) : Alphabet[i] = c

\* String.prototype.toLowerCase, one character
LowerChar(c) ==
    CASE c = "A" -> "a"
      [] c = "B" -> "b"
      [] c = "H" -> "h"
      [] c = "L" -> "l"
      [] c = "T" -> "t"
      [] c = "U" -> "u"
      [] OTHER -> c

ToLowerCase(str) == [i \in 1..Len(str) |-> LowerChar(str[i])]

\* String.prototype.includes
Includes(str, sub) ==
    \E i \in 0..(Len(str) - Len(sub)) : SubSeq(str, i + 1, i + Len(sub)) = sub

\* String.prototype.startsWith
StartsWith(str, prefix) ==
    /\ Len(prefix) <= Len(str)
    /\ SubSeq(str, 1, Len(prefix)) = prefix

\* a < b on two strings: the first differing code unit decides, a proper
\* prefix is smaller
StrLess(a, b) ==
    \E i \in 1..(Len(b)) :
        /\ \A j \in 1..(i - 1) : j <= Len(a) /\ a[j] = b[j]
        /\ \/ i = Len(a) + 1
           \/ i <= Len(a) /\ CharCode(a[i]) < CharCode(b[i])

Digit(d) == Alphabet[d + 3]

\* String(n) for a non-negative integer
RECURSIVE NumStr(_)
NumStr(n) == IF n < 10 THEN <<Digit(n)>> ELSE NumStr(n \div 10) \o <<Digit(n % 10)>>

\* The empty string, falsy under ||
Empty == <<>>

StrOr2(a, b) == IF a # Empty THEN a ELSE b

StrOr3(a, b, c) == StrOr2(a, StrOr2(b, c))

StrOr4(a, b, c, d) == StrOr2(a, StrOr3(b, c, d))

\* a || b on numbers: 0 is falsy
NumOr2(a, b) == IF a # 0 THEN a ELSE b

(***************************************************************************)
(* localStorage and cookie                                                 *)
(***************************************************************************)
LsKeys == {"adminToken", "authToken", "admin_session_active",
           "userEmail", "userRole", "userName", "username", "userInfo"}

EmptyStorage == [k \in LsKeys |-> NULL]

\* localStorage.removeItem for each key of ks
RemoveItems(store, ks) == [k \in LsKeys |-> IF k \in ks THEN NULL ELSE store[k]]

NoCookie == [token |-> NULL, expires |-> 0]

\* TeamSheldonAdmin.setAuthCookie: expires SESSION_TIMEOUT after it is set
SetAuthCookie(token, t) == [token |-> token, expires |-> t + SESSION_TIMEOUT]

\* (a cookie that never expires)
GetAuthCookie_NoExpiry(c, t) == c.token

\* getAuthCookie: the browser no longer returns a cookie past its expiry
GetAuthCookie(c, t) == IF c.token # NULL /\ t < c.expires THEN c.token ELSE NULL

\* localStorage['admin_login_attempts'] absent
NoAttempts == [present |-> FALSE, count |-> 0, timestamp |-> 0]

(***************************************************************************)
(* Inputs of the login flow                                                *)
(***************************************************************************)
Tokens == {"tokA", "tokB"}

NoUser == [name |-> NULL, email |-> NULL, role |-> NULL, username |-> NULL]

Users == { [name |-> "Ann", email |-> "ann@teamsheldon.tech", role |-> "Owner",
            username |-> NULL],
           [name |-> NULL, email |-> "bob@teamsheldon.tech", role |-> NULL,
            username |-> NULL] }

\* email.split('@')[0] on the addresses above
LocalPart(email) ==
    CASE email = "ann@teamsheldon.tech" -> "ann"
      [] email = "bob@teamsheldon.tech" -> "bob"
      [] email = "admin@teamsheldon.tech" -> "admin"
      [] OTHER -> email

\* The bodies /api/auth/login answers a successful login with: the token under
\* any of its three names or under none, the user nested or absent.
LoginResponses ==
    { [token |-> t, access_token |-> NULL, authToken |-> NULL, user |-> u]
        : t \in Tokens \cup {NULL}, u \in Users \cup {NoUser} }
    \cup { [token |-> NULL, access_token |-> "tokA", authToken |-> "tokB",
            user |-> NoUser],
           [token |-> NULL, access_token |-> NULL, authToken |-> "tokB",
            user |-> NoUser] }

Pages == {"login", "dashboard", "activity", "analytics"}

(***************************************************************************)
(* Page objects as constructed by a page load                              *)
(***************************************************************************)
\* What has happened to the session, for the statements about it:
\*   session  "never" before the first login, "open" from handleLoginSuccess
\*            to the next logout operation, "closed" after a logout operation
\*   hasToken the login that opened the session stored a token
\*   damaged  handleMissingApiKey, a failed checkAuthStatus or
\*            localStorage.clear() ran since that login
\*   loginAt  Date.now() of that login
NoHistory == [session |-> "never", hasToken |-> FALSE, damaged |-> FALSE,
              loginAt |-> 0]

\* The TeamSheldonAdmin object and the login form of index.html:
\*   isLoggingIn        handleLogin is between its fetch and its finally block
\*   inFlight           the fetches of authenticateUser not answered yet
\*   turnstileToken     the token the Turnstile callback left
\*   username, password, agreeToS   the fields of #loginForm
\*   loginBtnDisabled   #loginBtn.disabled
\*   pointerEvents      #loginForm.style.pointerEvents
\*   intervals          the intervals of startRateLimitTimer still set, each
\*                      with the remainingSeconds of its closure; latest
\*                      marks the one this.rateLimitTimer refers to
\*   started, ready     countdowns started and 'Ready' notifications shown
\*                      on this page (history)
\*   answer             how the last authentication request ended (history)
\*   sessionTimer       when the timeout this.sessionTimer refers to is due,
\*                      -1 for null
\*   timeouts           when the timeouts of startSessionTimer still pending
\*                      are due
\*   hidden             document.hidden; a page is loaded in the foreground
FreshLogin == [constructed |-> FALSE, isAuthenticated |-> FALSE,
               sessionTimer |-> -1, loginAttempts |-> 0,
               checkAuthPending |-> NULL, currentUser |-> NoUser,
               isLoggingIn |-> FALSE, inFlight |-> 0, turnstileToken |-> NULL,
               username |-> <<>>, password |-> <<>>, agreeToS |-> FALSE,
               loginBtnDisabled |-> TRUE, pointerEvents |-> "auto",
               intervals |-> <<>>, started |-> 0, ready |-> 0,
               answer |-> NULL, timeouts |-> <<>>, hidden |-> FALSE]

FreshDash == [state |-> "none", apiKey |-> NULL, validating |-> FALSE,
              requests |-> {}, born |-> NoHistory, at |-> 0]

FreshAnalytics == [state |-> "none", authToken |-> NULL]

FreshActivity == [state |-> "none"]

\* A window.location.href assignment, a reload or a typed address: the
\* document is replaced and every object of the old page is gone.
LoadPage(p) ==
    /\ page' = p
    /\ pendingRedirect' = NULL
    /\ login' = FreshLogin
    /\ dash' = FreshDash
    /\ analytics' = FreshAnalytics
    /\ activity' = FreshActivity

(***************************************************************************)
(* Environment                                                             *)
(***************************************************************************)
Tick ==
    /\ now < MaxMinutes * Minute
    /\ now' = now + Minute
    /\ UNCHANGED <<ls, cookie, isDevelopment, page, pendingRedirect, login,
                   dash, analytics, activity, attemptsStore, hist>>
    /\ UNCHANGED NotAuth

Navigate(p) ==
    /\ LoadPage(p)
    /\ UNCHANGED <<ls, cookie, now, isDevelopment, attemptsStore, hist>>
    /\ UNCHANGED NotAuth

RedirectFires ==
    /\ pendingRedirect # NULL
    /\ LoadPage(pendingRedirect)
    /\ UNCHANGED <<ls, cookie, now, isDevelopment, attemptsStore, hist>>
    /\ UNCHANGED NotAuth

(***************************************************************************)
(* TeamSheldonAdmin (login page)                                           *)
(***************************************************************************)
\* getLoginAttempts
GetLoginAttempts(stored, t) ==
    LET data == IF stored.present THEN stored ELSE NoAttempts
    IN  IF t - data.timestamp > LOCKOUT_DURATION THEN 0 ELSE data.count

\* constructor + init: loginAttempts from storage, then checkAuthStatus up to
\* its fetch (which it only sends when the cookie is there)
LoginConstruct ==
    /\ page = "login"
    /\ ~login.constructed
    /\ login' = [FreshLogin EXCEPT
                    !.constructed = TRUE,
                    !.loginAttempts = GetLoginAttempts(attemptsStore, now),
                    !.checkAuthPending = GetAuthCookie(cookie, now)]
    /\ UNCHANGED <<ls, cookie, now, isDevelopment, page, pendingRedirect,
                   dash, analytics, activity, attemptsStore, hist>>
    /\ UNCHANGED NotAuth

\* clearTimeout(id): the pending timeouts without the one that is due at t
ClearTimeout(pending, t) ==
    LET found == {i \in 1..Len(pending) : pending[i] = t}
    IN  IF found = {} THEN pending
        ELSE LET i == CHOOSE k \in found : \A j \in found : k <= j
             IN  SubSeq(pending, 1, i - 1) \o SubSeq(pending, i + 1, Len(pending))

\* clearSessionTimer
ClearSessionTimer(l) ==
    IF l.sessionTimer >= 0
      THEN [l EXCEPT !.timeouts = ClearTimeout(@, l.sessionTimer),
                     !.sessionTimer = -1]
      ELSE l

\* startSessionTimer at instant t
StartSessionTimer(l, t) ==
    LET cleared == ClearSessionTimer(l)
    IN  [cleared EXCEPT !.timeouts = Append(@, t + SESSION_TIMEOUT),
                        !.sessionTimer = t + SESSION_TIMEOUT]

\* checkAuthStatus after its fetch: response.ok, or a non-ok response / throw
CheckAuthStatusDone(ok) ==
    /\ page = "login"
    /\ login.checkAuthPending # NULL
    /\ IF ok
         THEN /\ login' = StartSessionTimer(
                             [login EXCEPT !.checkAuthPending = NULL,
                                           !.isAuthenticated = TRUE], now)
              /\ pendingRedirect' = "dashboard"
              /\ UNCHANGED <<cookie, hist>>
         ELSE /\ login' = [login EXCEPT !.checkAuthPending = NULL]
              /\ cookie' = NoCookie
              /\ hist' = [hist EXCEPT !.damaged = TRUE]
              /\ UNCHANGED pendingRedirect
    /\ UNCHANGED <<ls, now, isDevelopment, page, dash, analytics, activity,
                   attemptsStore>>
    /\ UNCHANGED NotAuth

\* handleLoginSuccess(userData), and isLoggingIn of the finally block of
\* handleLogin; the request it answers is in flight when handleLogin sent it
HandleLoginSuccess(userData) ==
    LET token == Or3(userData.token, userData.access_token, userData.authToken)
        user  == IF userData.user # NoUser
                   THEN userData.user
                   ELSE [name |-> "Admin User",
                         email |-> "admin@teamsheldon.tech",
                         role |-> "Administrator", username |-> NULL]
        userEmail == Or3(user.email, user.username, "Loading...")
        userRole  == Or2(user.role, "Loading...")
        stored == IF Truthy(token)
                    THEN [ls EXCEPT !["adminToken"] = token,
                                    !["authToken"] = token]
                    ELSE RemoveItems(ls, {"adminToken", "authToken"})
    IN
    /\ page = "login"
    /\ login.constructed
    /\ attemptsStore' = NoAttempts
    /\ cookie' = SetAuthCookie(IF Truthy(token) THEN token ELSE "session_tok", now)
    /\ ls' = [stored EXCEPT !["userEmail"] = userEmail,
                            !["userRole"] = userRole,
                            !["userName"] = Or2(user.name, LocalPart(userEmail)),
                            !["admin_session_active"] = "true"]
    /\ login' = StartSessionTimer(
                    [login EXCEPT !.loginAttempts = 0,
                                  !.currentUser = user,
                                  !.isAuthenticated = TRUE,
                                  !.isLoggingIn = FALSE,
                                  !.inFlight = IF @ > 0 THEN @ - 1 ELSE @,
                                  !.answer = "success"], now)
    /\ pendingRedirect' = "dashboard"
    /\ hist' = [session |-> "open", hasToken |-> Truthy(token),
                damaged |-> FALSE, loginAt |-> now]
    /\ UNCHANGED <<now, isDevelopment, page, dash, analytics, activity>>
    /\ UNCHANGED NotAuth

\* logout(reason), called by the session timer set in startSessionTimer
Logout ==
    /\ page = "login"
    /\ \E i \in 1..Len(login.timeouts) :
          /\ now >= login.timeouts[i]
          /\ login' = ClearSessionTimer(
                          [login EXCEPT
                              !.timeouts = SubSeq(@, 1, i - 1)
                                             \o SubSeq(@, i + 1, Len(@)),
                              !.isAuthenticated = FALSE,
                              !.currentUser = NoUser])
    /\ cookie' = NoCookie
    /\ ls' = RemoveItems(ls, {"admin_session_active", "adminToken", "authToken"})
    /\ pendingRedirect' = "login"
    /\ hist' = [hist EXCEPT !.session = "closed"]
    /\ UNCHANGED <<now, isDevelopment, page, dash, analytics, activity,
                   attemptsStore>>
    /\ UNCHANGED NotAuth

\* visibilitychange: pauseSession when the document is hidden now,
\* resumeSession when it is shown again
VisibilityChange ==
    /\ page = "login" /\ login.constructed
    /\ LET l == [login EXCEPT !.hidden = ~@]
       IN  login' = IF l.hidden THEN ClearSessionTimer(l)
                    ELSE IF l.isAuthenticated THEN StartSessionTimer(l, now)
                    ELSE l
    /\ UNCHANGED <<ls, cookie, now, isDevelopment, page, pendingRedirect,
                   dash, analytics, activity, attemptsStore, hist>>
    /\ UNCHANGED NotAuth

(***************************************************************************)
(* Dashboard (Dashboard.html)                                              *)
(***************************************************************************)
\* Dashboard.checkAuth
CheckAuth(dev, c, t) ==
    IF dev THEN TRUE ELSE GetAuthCookie(c, t) # NULL

\* The key the Dashboard constructor reads from the login session
ApiKey(store) == Or2(store["adminToken"], store["authToken"])

HandleMissingApiKey_NoRedirect ==
    /\ ls' = RemoveItems(ls, {"admin_session_active", "adminToken", "authToken"})
    /\ cookie' = NoCookie
    /\ hist' = [hist EXCEPT !.damaged = TRUE]
    /\ UNCHANGED pendingRedirect

\* handleMissingApiKey: storage and cookie, then the delayed redirect
HandleMissingApiKey ==
    /\ ls' = RemoveItems(ls, {"admin_session_active", "adminToken", "authToken"})
    /\ cookie' = NoCookie
    /\ pendingRedirect' = "login"
    /\ hist' = [hist EXCEPT !.damaged = TRUE]

\* new Dashboard(): the constructor, with loadUserInfo and init up to their
\* first fetch
DashboardConstruct ==
    /\ page = "dashboard"
    /\ dash.state = "none"
    /\ LET key == ApiKey(ls)
           profileToken == Or2(ls["authToken"], GetAuthCookie(cookie, now))
           born == [FreshDash EXCEPT !.apiKey = key,
                                     !.born = hist,
                                     !.at = now]
       IN  IF ~Truthy(key)
             THEN /\ HandleMissingApiKey
                  /\ dash' = [born EXCEPT !.state = "missingKey"]
             ELSE /\ IF CheckAuth(isDevelopment, cookie, now)
                       THEN /\ dash' = [born EXCEPT
                                  !.state = "loaded",
                                  !.validating = TRUE,
                                  !.requests = {"verify", "data"} \cup
                                      (IF Truthy(profileToken)
                                         THEN {"profile"} ELSE {})]
                            /\ UNCHANGED pendingRedirect
                       ELSE /\ dash' = [born EXCEPT
                                  !.state = "authFailed",
                                  !.validating = TRUE,
                                  !.requests = {"verify"} \cup
                                      (IF Truthy(profileToken)
                                         THEN {"profile"} ELSE {})]
                            /\ pendingRedirect' = "login"
                  /\ UNCHANGED <<ls, cookie, hist>>
    /\ UNCHANGED <<now, isDevelopment, page, login, analytics, activity,
                   attemptsStore>>
    /\ UNCHANGED NotAuth

\* validateApiKey after its fetch: "ok", "rejected" (non-ok) or "error" (throw)
ValidateApiKeyDone(outcome) ==
    /\ page = "dashboard"
    /\ dash.validating
    /\ dash' = [dash EXCEPT !.validating = FALSE]
    /\ IF outcome = "rejected"
         THEN HandleMissingApiKey
         ELSE UNCHANGED <<ls, cookie, pendingRedirect, hist>>
    /\ UNCHANGED <<now, isDevelopment, page, login, analytics, activity,
                   attemptsStore>>
    /\ UNCHANGED NotAuth

\* performLogout of Dashboard.js
DashboardPerformLogout ==
    /\ page = "dashboard"
    /\ ls' = RemoveItems(ls, {"adminToken", "authToken", "userEmail", "userRole"})
    /\ dash' = IF dash.state # "none" /\ Truthy(dash.apiKey)
                 THEN [dash EXCEPT !.requests = @ \cup {"logout"}]
                 ELSE dash
    /\ pendingRedirect' = "login"
    /\ hist' = [hist EXCEPT !.session = "closed"]
    /\ UNCHANGED <<cookie, now, isDevelopment, page, login, analytics, activity,
                   attemptsStore>>
    /\ UNCHANGED NotAuth

(***************************************************************************)
(* Activity page: performLogout and ActivityLogsManager.loadUserInfo       *)
(***************************************************************************)
\* performLogout of Activity.js
ActivityPerformLogout ==
    /\ page = "activity"
    /\ ls' = RemoveItems(ls, {"authToken", "userInfo"})
    /\ pendingRedirect' = "login"
    /\ hist' = [hist EXCEPT !.session = "closed"]
    /\ UNCHANGED <<cookie, now, isDevelopment, page, login, dash, analytics,
                   activity, attemptsStore>>
    /\ UNCHANGED NotAuth

\* new ActivityLogsManager(): init up to the profile fetch of loadUserInfo
ActivityConstruct ==
    /\ page = "activity"
    /\ activity.state = "none"
    /\ activity' = [activity EXCEPT !.state =
           IF Truthy(ls["authToken"]) /\ ~Truthy(ls["userInfo"])
             THEN "fetchingProfile" ELSE "ready"]
    /\ UNCHANGED <<ls, cookie, now, isDevelopment, page, pendingRedirect, login,
                   dash, analytics, attemptsStore, hist>>
    /\ UNCHANGED NotAuth

\* loadUserInfo after its fetch: "ok", "unauthorized" (401), "error" (another
\* status or a throw)
ActivityProfileDone(outcome) ==
    /\ page = "activity"
    /\ activity.state = "fetchingProfile"
    /\ activity' = [activity EXCEPT !.state = "ready"]
    /\ CASE outcome = "ok" ->
              /\ ls' = [ls EXCEPT !["userInfo"] = "profile"]
              /\ UNCHANGED <<pendingRedirect, attemptsStore, hist>>
         [] outcome = "unauthorized" ->
              /\ ls' = EmptyStorage
              /\ attemptsStore' = NoAttempts
              /\ pendingRedirect' = "login"
              /\ hist' = [hist EXCEPT !.damaged = TRUE]
         [] OTHER ->
              UNCHANGED <<ls, pendingRedirect, attemptsStore, hist>>
    /\ UNCHANGED <<cookie, now, isDevelopment, page, login, dash, analytics>>
    /\ UNCHANGED NotAuth

(***************************************************************************)
(* Analytics (Analytics.html)                                              *)
(***************************************************************************)
\* new Analytics(): the constructor and init up to verifyAuth's fetch
AnalyticsConstruct ==
    /\ page = "analytics"
    /\ analytics.state = "none"
    /\ IF Truthy(ls["authToken"])
         THEN /\ analytics' = [state |-> "verifying", authToken |-> ls["authToken"]]
              /\ UNCHANGED pendingRedirect
         ELSE /\ analytics' = [state |-> "redirected", authToken |-> NULL]
              /\ pendingRedirect' = "login"
    /\ UNCHANGED <<ls, cookie, now, isDevelopment, page, login, dash, activity,
                   attemptsStore, hist>>
    /\ UNCHANGED NotAuth

\* init after verifyAuth: resolved, or thrown (non-ok response / network error)
AnalyticsVerifyDone(ok) ==
    /\ page = "analytics"
    /\ analytics.state = "verifying"
    /\ IF ok
         THEN /\ analytics' = [analytics EXCEPT !.state = "ready"]
              /\ UNCHANGED <<ls, pendingRedirect>>
         ELSE /\ analytics' = [analytics EXCEPT !.state = "redirected"]
              /\ ls' = RemoveItems(ls, {"authToken"})
              /\ pendingRedirect' = "login"
    /\ UNCHANGED <<cookie, now, isDevelopment, page, login, dash, activity,
                   attemptsStore, hist>>
    /\ UNCHANGED NotAuth

\* performLogout of Scouting.js (the Analytics page)
AnalyticsPerformLogout ==
    /\ page = "analytics"
    /\ ls' = RemoveItems(ls, {"adminToken", "authToken", "userEmail", "userRole"})
    /\ pendingRedirect' = "login"
    /\ hist' = [hist EXCEPT !.session = "closed"]
    /\ UNCHANGED <<cookie, now, isDevelopment, page, login, dash, analytics,
                   activity, attemptsStore>>
    /\ UNCHANGED NotAuth

(***************************************************************************)
(* TeamSheldonAdmin: the login form, the attempts counter and the lock,    *)
(* the rate-limit countdown                                                *)
(***************************************************************************)
MaxFiveMinutes == 4   \* the clock of the login page advances to 20 minutes

MaxRetryAfter == 2    \* seconds a 429 answer asks to wait

MaxCountdowns == 2    \* countdowns a page starts

MaxReady == 3         \* 'Ready' notifications counted

MAX_LOGIN_ATTEMPTS == 5

Dev == <<"d", "e", "v">>

Dev123 == <<"d", "e", "v", "1", "2", "3">>

\* what is typed into #username and #password; the texts carry no blanks,
\* which is all that trim() would remove
Usernames == {Dev}

Passwords == {Dev123, <<"s", "h", "e", "l", "d", "o", "n", "1">>}

\* the credentials handleLogin reads from the form
Credentials(l) ==
    [username |-> l.username, password |-> l.password,
     agreeToS |-> l.agreeToS, turnstileToken |-> l.turnstileToken]

\* validateCredentials: the errors it collects
CredentialErrors(credentials, dev) ==
    LET isDevCredentials == /\ dev
                            /\ credentials.username = Dev
                            /\ credentials.password = Dev123
    IN  (IF credentials.username = <<>> \/ Len(credentials.username) < 3
           THEN {"Username must be at least 3 characters"} ELSE {})
        \cup (IF credentials.password = <<>> \/ Len(credentials.password) < 8
                THEN {"Password must be at least 8 characters"} ELSE {})
        \cup (IF ~credentials.agreeToS
                THEN {"You must agree to the Terms of Service"} ELSE {})
        \cup (IF ~Truthy(credentials.turnstileToken) /\ ~isDevCredentials
                THEN {"Please complete the security verification"} ELSE {})

ValidateCredentials(credentials, dev) == CredentialErrors(credentials, dev) = {}

\* validateForm: isValid
FormIsValid(l, dev) ==
    LET isDevCredentials == /\ dev
                            /\ l.username = Dev
                            /\ l.password = Dev123
    IN  /\ Len(l.username) >= 3
        /\ Len(l.password) >= 8
        /\ l.agreeToS
        /\ (Truthy(l.turnstileToken) \/ isDevCredentials)

\* validateForm
ValidateForm(l, dev) == [l EXCEPT !.loginBtnDisabled = ~FormIsValid(l, dev)]

\* isLocked
IsLocked_Never(l) == FALSE

IsLocked(l) == l.loginAttempts >= MAX_LOGIN_ATTEMPTS

\* the early return of handleLogin
HandleLoginReturns_NotWhileLoggingIn(l) == IsLocked(l)

HandleLoginReturns(l) == l.isLoggingIn \/ IsLocked(l)

\* incrementLoginAttempts, then lockAccount when no attempt is left: the
\* entry of localStorage
StoredAttempts(count, t) ==
    [present |-> TRUE,
     count |-> IF MAX_LOGIN_ATTEMPTS - count <= 0 THEN MAX_LOGIN_ATTEMPTS
               ELSE count,
     timestamp |-> t]

\* the finally block of handleLogin: updateLoginButton(false)
HandleLoginFinally(l, dev) == ValidateForm([l EXCEPT !.isLoggingIn = FALSE], dev)

\* updateTimer once remainingSeconds < 0: the form is enabled again, 'Ready'
\* is shown, and clearInterval(this.rateLimitTimer) clears the interval that
\* field refers to at that moment
TimerExpires(l) ==
    [l EXCEPT !.pointerEvents = "auto",
              !.ready = IF @ < MaxReady THEN @ + 1 ELSE @,
              !.intervals = SelectSeq(@, LAMBDA t : ~t.latest)]

\* remainingSeconds-- of a closure; below -1 the values behave alike
Decrement(r) == IF r - 1 < -1 THEN -1 ELSE r - 1

\* startRateLimitTimer(seconds): the form is dimmed and takes no pointer
\* events; the button it disables is looked up as 'loginButton', which is not
\* the 'loginBtn' of validateForm.  updateTimer runs once at once, then
\* setInterval replaces this.rateLimitTimer.
StartRateLimitTimer(l, seconds) ==
    LET dimmed == [l EXCEPT !.pointerEvents = "none", !.started = @ + 1]
        first  == IF seconds - 1 < 0 THEN TimerExpires(dimmed) ELSE dimmed
        older  == [i \in 1..Len(first.intervals) |->
                      [first.intervals[i] EXCEPT !.latest = FALSE]]
    IN  [first EXCEPT !.intervals =
            Append(older, [remaining |-> Decrement(seconds), latest |-> TRUE])]

\* a countdown has not reached zero yet
CountdownRunning(l) ==
    \E i \in 1..Len(l.intervals) : l.intervals[i].remaining >= 0

\* a change of a field of the form, or a Turnstile callback: validateForm
TypeUsername(u) ==
    /\ page = "login" /\ login.constructed
    /\ login.username # u
    /\ login' = ValidateForm([login EXCEPT !.username = u], isDevelopment)
    /\ UNCHANGED <<ls, cookie, now, isDevelopment, page, pendingRedirect,
                   dash, analytics, activity, attemptsStore, hist>>
    /\ UNCHANGED NotAuth

TypePassword(p) ==
    /\ page = "login" /\ login.constructed
    /\ login.password # p
    /\ login' = ValidateForm([login EXCEPT !.password = p], isDevelopment)
    /\ UNCHANGED <<ls, cookie, now, isDevelopment, page, pendingRedirect,
                   dash, analytics, activity, attemptsStore, hist>>
    /\ UNCHANGED NotAuth

ToggleAgreeToS ==
    /\ page = "login" /\ login.constructed
    /\ login' = ValidateForm([login EXCEPT !.agreeToS = ~@], isDevelopment)
    /\ UNCHANGED <<ls, cookie, now, isDevelopment, page, pendingRedirect,
                   dash, analytics, activity, attemptsStore, hist>>
    /\ UNCHANGED NotAuth

\* the callback of turnstile.render
TurnstileCallback(token) ==
    /\ page = "login" /\ login.constructed
    /\ login.turnstileToken # token
    /\ login' = ValidateForm([login EXCEPT !.turnstileToken = token],
                             isDevelopment)
    /\ UNCHANGED <<ls, cookie, now, isDevelopment, page, pendingRedirect,
                   dash, analytics, activity, attemptsStore, hist>>
    /\ UNCHANGED NotAuth

\* handleLogin up to the fetch of authenticateUser.  The submit event comes
\* from the enabled button or from the Enter key in a field, which needs the
\* button enabled but no pointer; the early returns change nothing.
HandleLogin ==
    /\ page = "login" /\ login.constructed
    /\ ~login.loginBtnDisabled
    /\ ~HandleLoginReturns(login)
    /\ ValidateCredentials(Credentials(login), isDevelopment)
    /\ login' = [login EXCEPT !.isLoggingIn = TRUE, !.inFlight = @ + 1,
                              !.loginBtnDisabled = TRUE]
    /\ UNCHANGED <<ls, cookie, now, isDevelopment, page, pendingRedirect,
                   dash, analytics, activity, attemptsStore, hist>>
    /\ UNCHANGED NotAuth

\* handleLoginFailure and the finally block: the server answered ok with
\* success=false, or with nothing handleLogin takes for a success
HandleLoginFailure ==
    /\ page = "login" /\ login.isLoggingIn
    /\ attemptsStore' = StoredAttempts(login.loginAttempts + 1, now)
    /\ login' = HandleLoginFinally(
                    [login EXCEPT !.loginAttempts = @ + 1,
                                  !.inFlight = @ - 1,
                                  !.answer = "failure"], isDevelopment)
    /\ UNCHANGED <<ls, cookie, now, isDevelopment, page, pendingRedirect,
                   dash, analytics, activity, hist>>
    /\ UNCHANGED NotAuth

\* handleLoginError and the finally block: authenticateUser threw, on a status
\* that is not ok ("http401", "http500") or on a fetch that failed ("network")
HandleLoginError(kind) ==
    /\ page = "login" /\ login.isLoggingIn
    /\ login' = HandleLoginFinally([login EXCEPT !.inFlight = @ - 1, !.answer = kind],
                                   isDevelopment)
    /\ UNCHANGED <<ls, cookie, now, isDevelopment, page, pendingRedirect,
                   dash, analytics, activity, attemptsStore, hist>>
    /\ UNCHANGED NotAuth

\* the answer 429 with retryAfter seconds: startRateLimitTimer, the throw,
\* handleLoginError and the finally block
RateLimited(seconds) ==
    /\ page = "login" /\ login.isLoggingIn
    /\ login.started < MaxCountdowns
    /\ login' = HandleLoginFinally(
                    [StartRateLimitTimer(login, seconds)
                        EXCEPT !.inFlight = @ - 1, !.answer = "http429"],
                    isDevelopment)
    /\ UNCHANGED <<ls, cookie, now, isDevelopment, page, pendingRedirect,
                   dash, analytics, activity, attemptsStore, hist>>
    /\ UNCHANGED NotAuth

\* updateTimer, called by the i-th interval
UpdateTimer(i) ==
    /\ page = "login"
    /\ i \in 1..Len(login.intervals)
    /\ LET r == login.intervals[i].remaining - 1
           ticked == [login EXCEPT !.intervals[i].remaining = Decrement(@)]
       IN  login' = IF r < 0 THEN TimerExpires(ticked) ELSE ticked
    /\ UNCHANGED <<ls, cookie, now, isDevelopment, page, pendingRedirect,
                   dash, analytics, activity, attemptsStore, hist>>
    /\ UNCHANGED NotAuth

\* five minutes pass
FiveMinutesPass ==
    /\ now < MaxFiveMinutes * 5 * Minute
    /\ now' = now + 5 * Minute
    /\ UNCHANGED <<ls, cookie, isDevelopment, page, pendingRedirect, login,
                   dash, analytics, activity, attemptsStore, hist>>
    /\ UNCHANGED NotAuth

\* the body the server accepts a login with
AcceptedLogin ==
    [token |-> "tokA", access_token |-> NULL, authToken |-> NULL, user |-> NoUser]

(***************************************************************************)
(* ScoutingManager (Scouting.js)                                           *)
(***************************************************************************)
\* Bounds: the rows of the teams table the server answers from, and the
\* GET /api/teams requests that can be in flight together.
MaxTeams == 3

MaxInFlight == 1

\* The default of the teamsPerPage select
DefaultTeamsPerPage == 24

High == <<"H", "i", "g", "h">>

Low == <<"L", "o", "w">>

NoTeam == [id |-> 0, teamNumber |-> 0, number |-> 0,
           teamName |-> Empty, name |-> Empty,
           scoutName |-> Empty, scout |-> Empty, scoutedBy |-> Empty,
           createdBy |-> Empty, reliability |-> Empty,
           date |-> Empty, createdAt |-> Empty, timestamp |-> Empty]

\* The rows of the teams table: loosely typed, any field may be missing (0 or
\* the empty string here) and names come under several spellings.
TeamRows ==
    << [NoTeam EXCEPT !.id = 1, !.teamNumber = 12, !.teamName = <<"A", "b">>,
                      !.scoutName = <<"A", "l">>, !.reliability = High,
                      !.date = <<"0", "1", "T", "9">>],
       [NoTeam EXCEPT !.teamNumber = 2, !.createdBy = <<"B", "o">>],
       [NoTeam EXCEPT !.id = 3, !.number = 2, !.name = <<"b">>,
                      !.scout = <<"a", "l">>, !.reliability = Low,
                      !.createdAt = <<"0", "2", "T", "9">>],
       [NoTeam EXCEPT !.id = 4, !.teamNumber = 1, !.teamName = <<"a">>,
                      !.scoutedBy = <<"B", "o">>, !.reliability = High,
                      !.timestamp = <<"0", "1", "T", "8">>] >>

\* The rows of `rows` at the positions in `keep`, in order
RECURSIVE Pick(_, _)
Pick(rows, keep) ==
    IF rows = <<>> THEN <<>>
    ELSE LET rest == Pick(SubSeq(rows, 1, Len(rows) - 1), keep)
         IN  IF Len(rows) \in keep THEN Append(rest, rows[Len(rows)]) ELSE rest

\* The arrays GET /api/teams can answer with: any selection of the first
\* MaxTeams rows
TeamLists ==
    LET n == IF MaxTeams < Len(TeamRows) THEN MaxTeams ELSE Len(TeamRows)
    IN  {Pick(SubSeq(TeamRows, 1, n), keep) : keep \in SUBSET (1..n)}

\* What the user can put in the filter inputs
SearchTexts == {Empty, <<"B">>, <<"1">>}

ReliabilityValues == {Empty, High}

DateValues == {Empty, <<"0", "1">>}

\* The options of the sortBy select, "" for one without a value
SortFields == {"teamNumber", "teamName", ""}

PageSizes == {2, DefaultTeamsPerPage}

\* The outcomes of GET /api/teams: an ok response whose JSON is an array, is
\* not an array or does not parse, a non-ok status, a rejected fetch
TeamsResponses ==
    {[kind |-> "array", data |-> l] : l \in TeamLists}
    \cup {[kind |-> k, data |-> <<>>] :
            k \in {"object", "unparsable", "status", "network"}}

ScoutNameOf(team) ==
    StrOr4(team.scoutName, team.scout, team.scoutedBy, team.createdBy)

DateOf(team) == StrOr3(team.date, team.createdAt, team.timestamp)

\* String(team.teamNumber || team.number || '')
TeamNumberStr(team) ==
    LET n == NumOr2(team.teamNumber, team.number)
    IN  IF n = 0 THEN Empty ELSE NumStr(n)

\* (the date filter as an unconditional prefix test)
TeamMatches_StrictDate(team, search, reliability, scout, date) ==
    LET teamNumber == ToLowerCase(TeamNumberStr(team))
        teamName   == ToLowerCase(StrOr2(team.teamName, team.name))
        scoutName  == ToLowerCase(ScoutNameOf(team))
    IN  /\ ~(search # Empty /\ ~(\/ Includes(teamNumber, search)
                                 \/ Includes(teamName, search)
                                 \/ Includes(scoutName, search)))
        /\ ~(reliability # Empty /\ team.reliability # reliability)
        /\ ~(scout # Empty /\ scoutName # scout)
        /\ ~(date # Empty /\ ~StartsWith(DateOf(team), date))

\* The callback of allTeams.filter in applyFilters
TeamMatches(team, search, reliability, scout, date) ==
    LET teamNumber == ToLowerCase(TeamNumberStr(team))
        teamName   == ToLowerCase(StrOr2(team.teamName, team.name))
        scoutName  == ToLowerCase(ScoutNameOf(team))
        dateVal    == DateOf(team)
    IN  /\ ~(search # Empty /\ ~(\/ Includes(teamNumber, search)
                                 \/ Includes(teamName, search)
                                 \/ Includes(scoutName, search)))
        /\ ~(reliability # Empty /\ team.reliability # reliability)
        /\ ~(scout # Empty /\ scoutName # scout)
        /\ ~(date # Empty /\ dateVal # Empty /\ ~StartsWith(dateVal, date))

\* getFieldValue(a, field) < getFieldValue(b, field)
FieldLess(a, b, field) ==
    CASE field = "teamNumber" ->
            NumOr2(a.teamNumber, a.number) < NumOr2(b.teamNumber, b.number)
      [] field = "teamName" ->
            StrLess(StrOr2(a.teamName, a.name), StrOr2(b.teamName, b.name))
      [] field = "scoutName" -> StrLess(ScoutNameOf(a), ScoutNameOf(b))
      [] field = "date" -> StrLess(DateOf(a), DateOf(b))
      [] field = "reliability" -> StrLess(a.reliability, b.reliability)
      [] OTHER -> FALSE

\* The comparator sortTeams gives Array.prototype.sort
CompareTeams(a, b, field, dir) ==
    IF FieldLess(a, b, field) THEN -1 * dir
    ELSE IF FieldLess(b, a, field) THEN 1 * dir
    ELSE 0

\* Array.prototype.sort is stable: e goes behind everything not greater
InsertTeam(sorted, e, field, dir) ==
    LET k == Cardinality({i \in 1..Len(sorted) :
                            CompareTeams(sorted[i], e, field, dir) <= 0})
    IN  SubSeq(sorted, 1, k) \o <<e>> \o SubSeq(sorted, k + 1, Len(sorted))

RECURSIVE SortedTeams(_, _, _)
SortedTeams(teams, field, dir) ==
    IF Len(teams) <= 1 THEN teams
    ELSE InsertTeam(SortedTeams(SubSeq(teams, 1, Len(teams) - 1), field, dir),
                    teams[Len(teams)], field, dir)

\* `${n} teams`
TeamsText(n) == NumStr(n) \o <<" ", "t", "e", "a", "m", "s">>

ZeroTeams == <<"0", " ", "t", "e", "a", "m", "s">>

\* (the empty branch without its count)
RenderTeams_StaleCount(m, d) ==
    IF Len(m.filteredTeams) = 0
      THEN [d EXCEPT !.grid = [empty |-> TRUE, cards |-> <<>>]]
      ELSE LET start == (m.currentPage - 1) * m.teamsPerPage
               shown == SubSeq(m.filteredTeams, start + 1,
                               IF start + m.teamsPerPage < Len(m.filteredTeams)
                                 THEN start + m.teamsPerPage
                                 ELSE Len(m.filteredTeams))
           IN  [d EXCEPT
                  !.grid = [empty |-> FALSE,
                            cards |-> [i \in 1..Len(shown) |->
                                         NumOr2(shown[i].id, shown[i].teamNumber)]],
                  !.teamsCount = TeamsText(Len(m.filteredTeams))]

\* renderTeams: the DOM after it
RenderTeams(m, d) ==
    IF Len(m.filteredTeams) = 0
      THEN [d EXCEPT !.grid = [empty |-> TRUE, cards |-> <<>>],
                     !.teamsCount = ZeroTeams]
      ELSE LET start == (m.currentPage - 1) * m.teamsPerPage
               shown == SubSeq(m.filteredTeams, start + 1,
                               IF start + m.teamsPerPage < Len(m.filteredTeams)
                                 THEN start + m.teamsPerPage
                                 ELSE Len(m.filteredTeams))
           IN  [d EXCEPT
                  !.grid = [empty |-> FALSE,
                            cards |-> [i \in 1..Len(shown) |->
                                         NumOr2(shown[i].id, shown[i].teamNumber)]],
                  !.teamsCount = TeamsText(Len(m.filteredTeams))]

\* Math.ceil(n / per)
CeilDiv(n, per) == (n + per - 1) \div per

\* updatePaginationInfo: the DOM after it
UpdatePaginationInfo(m, d) ==
    LET pages == CeilDiv(Len(m.filteredTeams), m.teamsPerPage)
        totalPages == IF pages < 1 THEN 1 ELSE pages
    IN  [d EXCEPT !.paginationInfo = [page |-> m.currentPage, of |-> totalPages]]

Flip(direction) == IF direction = "asc" THEN "desc" ELSE "asc"

\* sortTeams(field, ...) up to its updateDisplay test: the manager after it
SortTeamsObject(m, field) ==
    LET sort == IF m.currentSort.field = field
                  THEN [field |-> field,
                        direction |-> Flip(m.currentSort.direction)]
                  ELSE [field |-> field, direction |-> "asc"]
        dir == IF sort.direction = "asc" THEN 1 ELSE -1
    IN  [m EXCEPT !.currentSort = sort,
                  !.filteredTeams = SortedTeams(m.filteredTeams, field, dir)]

\* The filter of applyFilters over the DOM's filter inputs
FilterTeams(m, d) ==
    SelectSeq(m.allTeams,
              LAMBDA team : TeamMatches(team, ToLowerCase(d.teamSearch),
                                        d.reliabilityFilter,
                                        ToLowerCase(d.scoutFilter),
                                        d.dateFilter))

\* applyFilters: the manager after it
ApplyFiltersObject(m, d) ==
    LET filtered == [m EXCEPT !.filteredTeams = FilterTeams(m, d)]
        sorted   == SortTeamsObject(filtered, filtered.currentSort.field)
    IN  [sorted EXCEPT !.currentPage = 1]

\* applyFilters: the DOM after it
ApplyFiltersDom(m, d) ==
    LET after == ApplyFiltersObject(m, d)
    IN  UpdatePaginationInfo(after, RenderTeams(after, d))

\* populateScoutsFilter: the options are rebuilt, which deselects
PopulateScoutsFilter(m, d) ==
    [d EXCEPT !.scoutOptions =
                 {ScoutNameOf(m.allTeams[i]) : i \in 1..Len(m.allTeams)}
                   \ {Empty},
              !.scoutFilter = Empty]

\* updateStats: totalTeams and totalScouts
UpdateStats(m, d) ==
    [d EXCEPT !.totalTeams = Len(m.allTeams),
              !.totalScouts = Cardinality(
                  {ScoutNameOf(m.allTeams[i]) : i \in 1..Len(m.allTeams)}
                    \ {Empty})]

\* new ScoutingManager(): the fields the constructor sets, with init() having
\* sent its GET /api/teams
FreshScouting == [allTeams |-> <<>>, filteredTeams |-> <<>>,
                  currentSort |-> [field |-> "teamNumber", direction |-> "asc"],
                  currentPage |-> 1, teamsPerPage |-> DefaultTeamsPerPage,
                  filterTimeout |-> FALSE]

\* Scouting.html as served
FreshScoutingDom == [teamSearch |-> Empty, reliabilityFilter |-> Empty,
                     scoutFilter |-> Empty, dateFilter |-> Empty,
                     scoutOptions |-> {},
                     grid |-> [empty |-> FALSE, cards |-> <<>>],
                     teamsCount |-> Empty,
                     paginationInfo |-> [page |-> 0, of |-> 0],
                     totalTeams |-> 0, totalScouts |-> 0,
                     notifications |-> <<>>]

\* applied   filteredTeams comes from an applyFilters over the present
\*           allTeams and filter inputs
\* settled   nothing but applyFilters has touched filteredTeams or
\*           currentSort since
\* rendered  renderTeams has run since filteredTeams last changed
NoScoutHistory == [applied |-> FALSE, settled |-> FALSE, rendered |-> FALSE]

Applied == [applied |-> TRUE, settled |-> TRUE, rendered |-> TRUE]

\* An event handler that ends in applyFilters, after it has set the DOM
\* inputs to d
RunApplyFilters(d) ==
    /\ sm' = ApplyFiltersObject(sm, d)
    /\ sdom' = [ApplyFiltersDom(sm, d) EXCEPT !.notifications = <<>>]
    /\ shist' = Applied

\* input on teamSearch: debounceFilter
TypeSearch(v) ==
    /\ v # sdom.teamSearch
    /\ sdom' = [sdom EXCEPT !.teamSearch = v, !.notifications = <<>>]
    /\ sm' = [sm EXCEPT !.filterTimeout = TRUE]
    /\ shist' = [shist EXCEPT !.applied = FALSE]
    /\ UNCHANGED teamsFetch
    /\ UNCHANGED NotScout

\* the timer of debounceFilter
DebounceFires ==
    /\ sm.filterTimeout
    /\ sm' = [ApplyFiltersObject(sm, sdom) EXCEPT !.filterTimeout = FALSE]
    /\ sdom' = [ApplyFiltersDom(sm, sdom) EXCEPT !.notifications = <<>>]
    /\ shist' = Applied
    /\ UNCHANGED teamsFetch
    /\ UNCHANGED NotScout

\* change on reliabilityFilter
ChangeReliability(v) ==
    /\ v # sdom.reliabilityFilter
    /\ RunApplyFilters([sdom EXCEPT !.reliabilityFilter = v])
    /\ UNCHANGED teamsFetch
    /\ UNCHANGED NotScout

\* change on scoutFilter: one of the options populateScoutsFilter built
ChangeScout(v) ==
    /\ v \in sdom.scoutOptions \cup {Empty}
    /\ v # sdom.scoutFilter
    /\ RunApplyFilters([sdom EXCEPT !.scoutFilter = v])
    /\ UNCHANGED teamsFetch
    /\ UNCHANGED NotScout

\* change on dateFilter
ChangeDate(v) ==
    /\ v # sdom.dateFilter
    /\ RunApplyFilters([sdom EXCEPT !.dateFilter = v])
    /\ UNCHANGED teamsFetch
    /\ UNCHANGED NotScout

\* resetFilters
ResetFilters ==
    /\ RunApplyFilters([sdom EXCEPT !.teamSearch = Empty,
                                    !.reliabilityFilter = Empty,
                                    !.scoutFilter = Empty,
                                    !.dateFilter = Empty])
    /\ UNCHANGED teamsFetch
    /\ UNCHANGED NotScout

\* change on sortBy, or window.sortTeams(): sortTeams() with v the value of
\* the select
SortTeams(v) ==
    /\ IF v = ""
         THEN /\ sm' = sm
              /\ sdom' = [sdom EXCEPT !.notifications = <<>>]
              /\ shist' = shist
         ELSE LET sorted == [SortTeamsObject(sm, v) EXCEPT !.currentPage = 1]
                  d == [sdom EXCEPT !.notifications = <<>>]
              IN  /\ sm' = sorted
                  /\ sdom' = UpdatePaginationInfo(sorted, RenderTeams(sorted, d))
                  /\ shist' = [shist EXCEPT !.settled = FALSE, !.rendered = TRUE]
    /\ UNCHANGED teamsFetch
    /\ UNCHANGED NotScout

\* changeTeamsPerPage
ChangeTeamsPerPage(n) ==
    /\ n # sm.teamsPerPage
    /\ LET m == [sm EXCEPT !.teamsPerPage = n, !.currentPage = 1]
       IN  /\ sm' = m
           /\ sdom' = UpdatePaginationInfo(m,
                          RenderTeams(m, [sdom EXCEPT !.notifications = <<>>]))
    /\ shist' = [shist EXCEPT !.rendered = TRUE]
    /\ UNCHANGED teamsFetch
    /\ UNCHANGED NotScout

\* nextPage
NextPage ==
    /\ sm.currentPage < CeilDiv(Len(sm.filteredTeams), sm.teamsPerPage)
    /\ LET m == [sm EXCEPT !.currentPage = @ + 1]
       IN  /\ sm' = m
           /\ sdom' = UpdatePaginationInfo(m,
                          RenderTeams(m, [sdom EXCEPT !.notifications = <<>>]))
    /\ shist' = [shist EXCEPT !.rendered = TRUE]
    /\ UNCHANGED teamsFetch
    /\ UNCHANGED NotScout

\* previousPage
PreviousPage ==
    /\ sm.currentPage > 1
    /\ LET m == [sm EXCEPT !.currentPage = @ - 1]
       IN  /\ sm' = m
           /\ sdom' = UpdatePaginationInfo(m,
                          RenderTeams(m, [sdom EXCEPT !.notifications = <<>>]))
    /\ shist' = [shist EXCEPT !.rendered = TRUE]
    /\ UNCHANGED teamsFetch
    /\ UNCHANGED NotScout

\* refreshScouting up to the fetch of loadTeams
RefreshScouting ==
    /\ Len(teamsFetch) < MaxInFlight
    /\ teamsFetch' = Append(teamsFetch, "refresh")
    /\ sdom' = [sdom EXCEPT !.notifications = <<>>]
    /\ UNCHANGED <<sm, shist>>
    /\ UNCHANGED NotScout

\* (a request that stays queued once answered: sent again)
Without_Keep(q, i) == q

Without(q, i) == SubSeq(q, 1, i - 1) \o SubSeq(q, i + 1, Len(q))

\* loadTeams from the answer to its fetch on (the catch and finally blocks
\* included), then the notification of refreshScouting when it was the caller
LoadTeamsDone(i, resp) ==
    /\ i \in 1..Len(teamsFetch)
    /\ teamsFetch' = Without(teamsFetch, i)
    /\ LET failed == resp.kind \in {"unparsable", "status", "network"}
           m == [sm EXCEPT !.allTeams =
                    IF resp.kind = "array" THEN resp.data ELSE <<>>]
           shown == (IF failed THEN <<"Failed to load scouting data">> ELSE <<>>)
                    \o (IF teamsFetch[i] = "refresh"
                          THEN <<"Scouting data refreshed">> ELSE <<>>)
           d == PopulateScoutsFilter(m, sdom)
       IN  /\ sm' = ApplyFiltersObject(m, d)
           /\ sdom' = [UpdateStats(m, ApplyFiltersDom(m, d))
                          EXCEPT !.notifications = shown]
    /\ shist' = Applied
    /\ UNCHANGED NotScout

InitScout ==
    /\ sm = FreshScouting
    /\ sdom = FreshScoutingDom
    /\ teamsFetch = <<"init">>
    /\ shist = NoScoutHistory

NextScout ==
    \/ \E v \in SearchTexts : TypeSearch(v)
    \/ DebounceFires
    \/ \E v \in ReliabilityValues : ChangeReliability(v)
    \/ \E v \in sdom.scoutOptions \cup {Empty} : ChangeScout(v)
    \/ \E v \in DateValues : ChangeDate(v)
    \/ ResetFilters
    \/ \E v \in SortFields : SortTeams(v)
    \/ \E n \in PageSizes : ChangeTeamsPerPage(n)
    \/ NextPage
    \/ PreviousPage
    \/ RefreshScouting
    \/ \E i \in 1..MaxInFlight, resp \in TeamsResponses : LoadTeamsDone(i, resp)
(***************************************************************************)
(* ActivityLogsManager: loading, filtering and rendering the login logs    *)
(* (Activity.js).  The elements of Activity.html are taken to exist, and   *)
(* the browser's time zone to be UTC.                                      *)
(***************************************************************************)
MaxLogs == 2       \* entries the server may hold
MaxLogCalls == 2   \* loadActivityLogs calls in flight at once

Hour == 60 * Minute

DayMs == 24 * 60 * 60 * 1000

\* Date.prototype.setHours(0, 0, 0, 0), as an instant
LocalMidnight(t) == t - (t % DayMs)

\* the instant at which Activity.html is open
ActivityOpenedAt == 2 * DayMs + 12 * Hour

\* Entries as the API sends them; timestamp is the instant the string stands
\* for, success is the JSON value true or false, or missing
LogRows == <<
    [id |-> "a", timestamp |-> 2 * DayMs + 9 * Hour, ip |-> <<"1", "0">>,
     success |-> "true", status |-> NULL],
    [id |-> NULL, timestamp |-> DayMs + 9 * Hour, ip |-> <<"1", "1">>,
     success |-> "false", status |-> NULL],
    [id |-> "c", timestamp |-> 2 * DayMs + 10 * Hour, ip |-> <<"1", "0">>,
     success |-> NULL, status |-> "success"],
    [id |-> "d", timestamp |-> 2 * DayMs + 8 * Hour, ip |-> <<"2", "0">>,
     success |-> "true", status |-> NULL] >>

RECURSIVE PickLogs(_, _)
PickLogs(rows, keep) ==
    IF rows = <<>> THEN <<>>
    ELSE (IF 1 \in keep THEN <<Head(rows)>> ELSE <<>>)
         \o PickLogs(Tail(rows), {i - 1 : i \in keep \ {1}})

\* What the server may answer with: any selection of its entries
LogLists == {PickLogs(LogRows, keep) : keep \in SUBSET (1..MaxLogs)}

\* GET /api/admin/dashboard as loadActivityLogs sees it
DashboardAnswers ==
    {[kind |-> k, recentActivity |-> <<>>] : k \in {"threw", "notOk", "partial"}}
    \cup {[kind |-> "comprehensive", recentActivity |-> l] : l \in LogLists}

\* GET /api/login-history as loadActivityLogs sees it
HistoryAnswers ==
    {[kind |-> k, logs |-> <<>>] :
        k \in {"threw", "notOk", "successFalse", "unexpected"}}
    \cup {[kind |-> k, logs |-> l] : k \in {"history", "array"}, l \in LogLists}

LogDates == {0, LocalMidnight(ActivityOpenedAt)}   \* 0: the empty value

LogIpTexts == {Empty, <<"1", "1">>}

LogStatusValues == {"", "success"}

LogSortFields == {"ipAddress"}   \* the column headers clicked

\* convertSuccessToStatus
ConvertSuccessToStatus(success) ==
    IF success = "true" THEN "success"
    ELSE IF success = "false" THEN "failed"
    ELSE "unknown"

\* the log object made of a login-history entry, index counted from 0
HistoryLog(entry, index) ==
    [id |-> IF Truthy(entry.id) THEN entry.id ELSE "log_" \o ToString(index),
     timestamp |-> entry.timestamp,
     ipAddress |-> entry.ip,
     status |-> ConvertSuccessToStatus(entry.success)]

\* the log object made of a recentActivity entry
DashboardLog(entry, index) ==
    [id |-> IF Truthy(entry.id) THEN entry.id
            ELSE "admin_log_" \o ToString(index),
     timestamp |-> entry.timestamp,
     ipAddress |-> StrOr2(entry.ip, <<"U", "n", "k", "n", "o", "w", "n">>),
     status |-> IF Truthy(entry.status) THEN entry.status
                ELSE IF entry.success = "true" THEN "success" ELSE "failed"]

HistoryLogs(logsArray) ==
    [i \in 1..Len(logsArray) |-> HistoryLog(logsArray[i], i - 1)]

DashboardLogs(loginHistory) ==
    [i \in 1..Len(loginHistory) |-> DashboardLog(loginHistory[i], i - 1)]

\* showLoadingState
ShowLoadingState(d) ==
    [d EXCEPT !.logsTableBody = [kind |-> "loading", rows |-> <<>>],
              !.logsCount = [text |-> "Loading...", total |-> 0]]

\* showErrorState
ShowErrorState(d) ==
    [d EXCEPT !.logsTableBody = [kind |-> "error", rows |-> <<>>],
              !.logsCount = [text |-> "Failed to load logs", total |-> 0]]

\* hideLoadingState
HideLoadingState(d) == [d EXCEPT !.loadingOverlay = "none"]

\* updateStatistics: total entries, successful logins, failed attempts and
\* the entries of today
UpdateStatistics(a, d, t) ==
    LET n == Len(a.allLogs)
        count(P(_)) == Cardinality({i \in 1..n : P(a.allLogs[i])})
        IsSuccess(log) == log.status = "success"
        IsFailed(log) == log.status # "success"
        IsToday(log) == LocalMidnight(log.timestamp) = LocalMidnight(t)
    IN  [d EXCEPT !.totalEntries = n,
                  !.entriesToday = count(IsToday),
                  !.successfulLogins = count(IsSuccess),
                  !.failedAttempts = count(IsFailed)]

\* a[field] < b[field] in the comparator of sortLogs
LogLess(a, b, field) ==
    CASE field = "timestamp" -> a.timestamp < b.timestamp
      [] field = "ipAddress" -> StrLess(a.ipAddress, b.ipAddress)
      [] OTHER -> FALSE

\* The comparator sortLogs gives Array.prototype.sort
CompareLogs(a, b, field, direction) ==
    IF LogLess(a, b, field) THEN (IF direction = "asc" THEN -1 ELSE 1)
    ELSE IF LogLess(b, a, field) THEN (IF direction = "asc" THEN 1 ELSE -1)
    ELSE 0

\* Array.prototype.sort is stable: e goes behind everything not greater
InsertLog(sorted, e, field, direction) ==
    LET k == Cardinality({i \in 1..Len(sorted) :
                            CompareLogs(sorted[i], e, field, direction) <= 0})
    IN  SubSeq(sorted, 1, k) \o <<e>> \o SubSeq(sorted, k + 1, Len(sorted))

RECURSIVE SortedLogs(_, _, _)
SortedLogs(logs, field, direction) ==
    IF Len(logs) <= 1 THEN logs
    ELSE InsertLog(SortedLogs(SubSeq(logs, 1, Len(logs) - 1), field, direction),
                   logs[Len(logs)], field, direction)

\* sortLogs(field, direction, false): the manager after it
SortLogsObject(a, field, direction) ==
    LET dir == IF direction # NULL THEN direction
               ELSE IF a.currentSort.field = field
                      THEN (IF a.currentSort.direction = "asc" THEN "desc" ELSE "asc")
                      ELSE "desc"
    IN  [a EXCEPT !.currentSort = [field |-> field, direction |-> dir],
                  !.filteredLogs = SortedLogs(a.filteredLogs, field, dir)]

\* the test of the three filters of applyFilters on one log
LogMatches(log, d) ==
    /\ d.dateFilter # 0 =>
          LET filterDate == LocalMidnight(d.dateFilter)
          IN  log.timestamp >= filterDate /\ log.timestamp < filterDate + DayMs
    /\ d.ipAddress # Empty =>
          Includes(ToLowerCase(log.ipAddress), ToLowerCase(d.ipAddress))
    /\ d.status # "" => log.status = d.status

\* applyFilters: the manager after it
ApplyLogFiltersObject(a, d) ==
    LET filtered == SelectSeq(a.allLogs, LAMBDA log : LogMatches(log, d))
        set == [a EXCEPT !.filteredLogs = filtered,
                         !.totalLogs = Len(filtered),
                         !.currentPage = 1]
    IN  SortLogsObject(set, set.currentSort.field, set.currentSort.direction)

\* displayLogs: the empty page leaves logsCount as it is
DisplayLogs(a, d) ==
    LET startIndex == (a.currentPage - 1) * a.logsPerPage
        endIndex == startIndex + a.logsPerPage
        pageData == SubSeq(a.filteredLogs, startIndex + 1,
                           IF endIndex < Len(a.filteredLogs)
                             THEN endIndex ELSE Len(a.filteredLogs))
    IN  IF Len(pageData) = 0
          THEN [d EXCEPT !.logsTableBody = [kind |-> "noData", rows |-> <<>>]]
          ELSE [d EXCEPT
                  !.logsTableBody =
                      [kind |-> "rows",
                       rows |-> [i \in 1..Len(pageData) |-> pageData[i].id]],
                  !.logsCount = [text |-> "Showing", total |-> a.totalLogs]]

\* updatePagination
UpdatePagination(a, d) ==
    [d EXCEPT !.paginationInfo =
                 [page |-> a.currentPage,
                  of |-> CeilDiv(a.totalLogs, a.logsPerPage)]]

\* applyFilters: the DOM after it
ApplyLogFiltersDom(a, d) ==
    LET after == ApplyLogFiltersObject(a, d)
    IN  UpdatePagination(after, DisplayLogs(after, d))

\* (a catch block that keeps the logs it had)
LoadFailedObject_KeepLogs(a, d) == ApplyLogFiltersObject(a, d)

\* the catch block of loadActivityLogs: the manager after it
LoadFailedObject(a, d) == ApplyLogFiltersObject([a EXCEPT !.allLogs = <<>>], d)

\* the catch block of loadActivityLogs: the DOM after it
LoadFailedDom(a, d, t) ==
    LET cleared == [a EXCEPT !.allLogs = <<>>]
    IN  ApplyLogFiltersDom(cleared,
                           UpdateStatistics(cleared, ShowErrorState(d), t))

\* allLogs replaced, then updateStatistics and applyFilters: the manager
LoadedObject(a, d, logs) == ApplyLogFiltersObject([a EXCEPT !.allLogs = logs], d)

\* allLogs replaced, then updateStatistics and applyFilters: the DOM
LoadedDom(a, d, logs, t) ==
    LET set == [a EXCEPT !.allLogs = logs]
    IN  ApplyLogFiltersDom(set, UpdateStatistics(set, d, t))

\* new ActivityLogsManager(): the fields the constructor sets
FreshLogsManager ==
    [currentPage |-> 1, logsPerPage |-> 50, totalLogs |-> 0,
     filteredLogs |-> <<>>, allLogs |-> <<>>,
     currentSort |-> [field |-> "timestamp", direction |-> "desc"],
     filterTimeout |-> FALSE, autoRefresh |-> FALSE]

\* Activity.html as served
ServedLogsDom ==
    [dateFilter |-> 0, ipAddress |-> Empty, status |-> "",
     logsTableBody |-> [kind |-> "served", rows |-> <<>>],
     logsCount |-> [text |-> "served", total |-> 0],
     loadingOverlay |-> "served",
     totalEntries |-> 0, entriesToday |-> 0,
     successfulLogins |-> 0, failedAttempts |-> 0,
     paginationInfo |-> [page |-> 0, of |-> 0]]

\* initializeDateRange
InitializeDateRange(d, t) == [d EXCEPT !.dateFilter = LocalMidnight(t)]

\* One call of loadActivityLogs between two of its awaits
\*   awaits   the request whose answer it waits for
\*   latest   no call has been started after it
\*   first    it is the call init() awaits
LogCall(showLoading, first) ==
    [showLoading |-> showLoading, awaits |-> "dashboard", latest |-> TRUE,
     first |-> first]

\* What a call was answered with: the entries and the request they came by,
\* "failed" when the call ended in its catch block, "none" before it ends
NoAnswer == [source |-> "none", logs |-> <<>>]

FailedAnswer == [source |-> "failed", logs |-> <<>>]

\* raced     two calls have been in flight together since the page was idle
\* latest    what the call started last was answered with, once it finished
\* last      what the call that finished last was answered with
\* finished  "no" but in the state a call leaves behind when it finishes:
\*           then "failed" or "loaded"
NoLogHistory == [raced |-> FALSE, latest |-> NoAnswer, last |-> NoAnswer,
                 finished |-> "no"]

Quiet(h) == [h EXCEPT !.finished = "no"]

\* loadActivityLogs up to its first await
StartLoad(showLoading) ==
    /\ Len(logCalls) < MaxLogCalls
    /\ logCalls' = Append([i \in 1..Len(logCalls) |->
                              [logCalls[i] EXCEPT !.latest = FALSE]],
                          LogCall(showLoading, FALSE))
    /\ adom' = IF showLoading THEN ShowLoadingState(adom) ELSE adom
    /\ lhist' = IF Len(logCalls) = 0
                  THEN NoLogHistory
                  ELSE [Quiet(lhist) EXCEPT !.raced = TRUE, !.latest = NoAnswer]
    /\ UNCHANGED alm

\* the Refresh button, or Retry in the error row: loadActivityLogs()
RefreshActivityLogs ==
    /\ StartLoad(TRUE)
    /\ UNCHANGED NotLogs

\* the interval of setupAutoRefresh: loadActivityLogs(false)
AutoRefreshFires ==
    /\ alm.autoRefresh
    /\ StartLoad(FALSE)
    /\ UNCHANGED NotLogs

\* A call leaves: finally hides the overlay, init() goes on to
\* setupAutoRefresh when it was waiting for this call
FinishLoad(i, a, d, answer, failed) ==
    /\ logCalls' = Without(logCalls, i)
    /\ alm' = [a EXCEPT !.autoRefresh = @ \/ logCalls[i].first]
    /\ adom' = IF logCalls[i].showLoading THEN HideLoadingState(d) ELSE d
    /\ lhist' = [lhist EXCEPT
                   !.last = answer,
                   !.latest = IF logCalls[i].latest THEN answer ELSE @,
                   !.finished = IF failed THEN "failed" ELSE "loaded"]

\* loadActivityLogs from the answer of /api/admin/dashboard to its next await
\* or its end: processDashboardActivityData, or the fallback request
DashboardAnswered(i, answer) ==
    /\ i \in 1..Len(logCalls)
    /\ logCalls[i].awaits = "dashboard"
    /\ IF answer.kind = "comprehensive"
         THEN LET logs == DashboardLogs(answer.recentActivity)
              IN  FinishLoad(i, LoadedObject(alm, adom, logs),
                             LoadedDom(alm, adom, logs, now),
                             [source |-> "dashboard",
                              logs |-> answer.recentActivity],
                             FALSE)
         ELSE /\ logCalls' = [logCalls EXCEPT ![i].awaits = "history"]
              /\ lhist' = Quiet(lhist)
              /\ UNCHANGED <<alm, adom>>
    /\ UNCHANGED NotLogs

\* loadActivityLogs from the answer of /api/login-history to its end
HistoryAnswered(i, answer) ==
    /\ i \in 1..Len(logCalls)
    /\ logCalls[i].awaits = "history"
    /\ LET failed == answer.kind \in {"threw", "notOk", "successFalse"}
           logs == HistoryLogs(answer.logs)
       IN  IF failed
             THEN FinishLoad(i, LoadFailedObject(alm, adom),
                             LoadFailedDom(alm, adom, now), FailedAnswer, TRUE)
             ELSE FinishLoad(i, LoadedObject(alm, adom, logs),
                             LoadedDom(alm, adom, logs, now),
                             [source |-> "history", logs |-> answer.logs],
                             FALSE)
    /\ UNCHANGED NotLogs

\* An event handler that ends in applyFilters, after it has set the inputs
\* to d
RunApplyLogFilters(d) ==
    /\ alm' = ApplyLogFiltersObject(alm, d)
    /\ adom' = ApplyLogFiltersDom(alm, d)
    /\ lhist' = Quiet(lhist)
    /\ UNCHANGED logCalls

\* change on dateFilter
ChangeLogDate(v) ==
    /\ v # adom.dateFilter
    /\ RunApplyLogFilters([adom EXCEPT !.dateFilter = v])
    /\ UNCHANGED NotLogs

\* change on status
ChangeLogStatus(v) ==
    /\ v # adom.status
    /\ RunApplyLogFilters([adom EXCEPT !.status = v])
    /\ UNCHANGED NotLogs

\* input on ipAddress: debounceFilter
TypeIpAddress(v) ==
    /\ v # adom.ipAddress
    /\ adom' = [adom EXCEPT !.ipAddress = v]
    /\ alm' = [alm EXCEPT !.filterTimeout = TRUE]
    /\ lhist' = Quiet(lhist)
    /\ UNCHANGED logCalls
    /\ UNCHANGED NotLogs

\* the timer of debounceFilter
LogDebounceFires ==
    /\ alm.filterTimeout
    /\ alm' = [ApplyLogFiltersObject(alm, adom) EXCEPT !.filterTimeout = FALSE]
    /\ adom' = ApplyLogFiltersDom(alm, adom)
    /\ lhist' = Quiet(lhist)
    /\ UNCHANGED logCalls
    /\ UNCHANGED NotLogs

\* resetFilters
ResetLogFilters ==
    /\ RunApplyLogFilters(InitializeDateRange(
           [adom EXCEPT !.dateFilter = 0, !.ipAddress = Empty, !.status = ""],
           now))
    /\ UNCHANGED NotLogs

\* a click on a column header: sortLogs(field)
SortLogs(field) ==
    /\ LET sorted == SortLogsObject(alm, field, NULL)
       IN  /\ alm' = sorted
           /\ adom' = DisplayLogs(sorted, adom)
    /\ lhist' = Quiet(lhist)
    /\ UNCHANGED logCalls
    /\ UNCHANGED NotLogs

\* init() at its await of the first loadActivityLogs(): the date input holds
\* today, the table the loading row
InitLogs ==
    /\ alm = FreshLogsManager
    /\ adom = ShowLoadingState(InitializeDateRange(ServedLogsDom, ActivityOpenedAt))
    /\ logCalls = <<LogCall(TRUE, TRUE)>>
    /\ lhist = NoLogHistory

NextLogs ==
    \/ RefreshActivityLogs
    \/ AutoRefreshFires
    \/ \E i \in 1..MaxLogCalls, answer \in DashboardAnswers :
          DashboardAnswered(i, answer)
    \/ \E i \in 1..MaxLogCalls, answer \in HistoryAnswers :
          HistoryAnswered(i, answer)
    \/ \E v \in LogDates : ChangeLogDate(v)
    \/ \E v \in LogStatusValues : ChangeLogStatus(v)
    \/ \E v \in LogIpTexts : TypeIpAddress(v)
    \/ LogDebounceFires
    \/ ResetLogFilters
    \/ \E field \in LogSortFields : SortLogs(field)

(***************************************************************************)
(* updateUserDisplay of ScoutingManager, ActivityLogsManager and           *)
(* SecurityManager: what the sidebar shows of a userInfo object            *)
(***************************************************************************)
\* A field of userInfo is missing (NULL), the empty string or a text
UserInfos ==
    [username : {NULL, "", "sheldon"},
     name     : {NULL, "", "Sheldon C"},
     role     : {NULL, "", "Owner"},
     userRole : {NULL, "", "Scout"},
     email    : {NULL, "", "s@teamsheldon.tech"},
     userEmail: {NULL, "", "c@teamsheldon.tech"}]

Managers == {"ScoutingManager", "ActivityLogsManager", "SecurityManager"}

\* the sidebar of a page as served, by: the manager that has written it
ServedSidebar == [by |-> "none", sidebarUserName |-> "served",
                  sidebarUserRole |-> "served", sidebarUserEmail |-> "served"]

\* (a display without a default for the role)
ActivityUpdateUserDisplay_NoRoleDefault(info) ==
    [by |-> "ActivityLogsManager",
     sidebarUserName  |-> Or3(info.username, info.name, "Admin User"),
     sidebarUserRole  |-> Or2(info.role, info.userRole),
     sidebarUserEmail |-> Or3(info.email, info.userEmail, "admin@teamsheldon.tech")]

\* ScoutingManager.updateUserDisplay
ScoutingUpdateUserDisplay(info) ==
    [by |-> "ScoutingManager",
     sidebarUserName  |-> Or3(info.username, info.name, "Admin User"),
     sidebarUserRole  |-> Or3(info.role, info.userRole, "Administrator"),
     sidebarUserEmail |-> Or3(info.email, info.userEmail, "admin@teamsheldon.tech")]

\* ActivityLogsManager.updateUserDisplay
ActivityUpdateUserDisplay(info) ==
    [by |-> "ActivityLogsManager",
     sidebarUserName  |-> Or3(info.username, info.name, "Admin User"),
     sidebarUserRole  |-> Or3(info.role, info.userRole, "Administrator"),
     sidebarUserEmail |-> Or3(info.email, info.userEmail, "admin@teamsheldon.tech")]

\* SecurityManager.updateUserDisplay
SecurityUpdateUserDisplay(info) ==
    [by |-> "SecurityManager",
     sidebarUserName  |-> Or3(info.username, info.name, "Admin User"),
     sidebarUserRole  |-> Or3(info.role, info.userRole, "Administrator"),
     sidebarUserEmail |-> Or3(info.email, info.userEmail, "admin@teamsheldon.tech")]

\* a manager's loadUserInfo calls updateUserDisplay(userInfo)
UpdateUserDisplay(manager) ==
    /\ sidebar' = CASE manager = "ScoutingManager" ->
                         ScoutingUpdateUserDisplay(userInfo)
                    [] manager = "ActivityLogsManager" ->
                         ActivityUpdateUserDisplay(userInfo)
                    [] manager = "SecurityManager" ->
                         SecurityUpdateUserDisplay(userInfo)
    /\ UNCHANGED userInfo
    /\ UNCHANGED NotUser

\* no manager has loaded a userInfo
IdleUser ==
    /\ userInfo = [username |-> NULL, name |-> NULL, role |-> NULL,
                   userRole |-> NULL, email |-> NULL, userEmail |-> NULL]
    /\ sidebar = ServedSidebar

InitUser ==
    /\ userInfo \in UserInfos
    /\ sidebar = ServedSidebar

NextUser == \E manager \in Managers : UpdateUserDisplay(manager)

(***************************************************************************)
(* Dashboard.loadUserInfo: whose name, role and address the sidebar of     *)
(* Dashboard.html shows                                                    *)
(***************************************************************************)
\* The token /api/auth/login gives to a user of Users
TokenOf(user) == IF user.email = "ann@teamsheldon.tech" THEN "tokA" ELSE "tokB"

\* The body /api/auth/login answers the login of user with
LoginOf(user) == [token |-> TokenOf(user), access_token |-> NULL,
                  authToken |-> NULL, user |-> user]

\* The body /api/user/profile answers a request bearing token with
ProfileOf(token) ==
    IF token = "tokA"
      THEN [username |-> "ann", name |-> "Ann", role |-> "Owner",
            userRole |-> NULL, email |-> "ann@teamsheldon.tech",
            userEmail |-> NULL]
      ELSE [username |-> "bob", name |-> NULL, role |-> "Scout",
            userRole |-> NULL, email |-> "bob@teamsheldon.tech",
            userEmail |-> NULL]

\* loadUserInfo up to its fetch: username, userRole and userEmail as read
\* from localStorage, the part before '@', the defaults.  The values the
\* storage holds with an '@' are the three addresses; such a value has one
\* '@', so emailParts[0] + '@' + emailParts[1] is the value again.
StoredUserInfo(store) ==
    LET IncludesAt(text) == text \in {"ann@teamsheldon.tech",
                                      "bob@teamsheldon.tech",
                                      "admin@teamsheldon.tech"}
        username  == Or2(store["username"], store["userEmail"])
        userRole  == Or2(store["userRole"], "Administrator")
        userEmail == Or2(store["userEmail"], store["username"])
        split     == Truthy(username) /\ IncludesAt(username)
        name      == IF split THEN LocalPart(username) ELSE username
        email     == IF split THEN username ELSE userEmail
    IN  [username  |-> IF Truthy(name) THEN name ELSE "Admin User",
         userRole  |-> userRole,
         userEmail |-> IF Truthy(email) THEN email
                       ELSE "admin@teamsheldon.tech"]

\* loadUserInfo of a Dashboard constructed with an API key: the stored
\* values, the answer of /api/user/profile when a token is there ("ok", or
\* "unavailable" for a response that is not ok and for a fetch that throws),
\* the values stored again and the sidebar
DashboardLoadUserInfo(answer) ==
    LET token  == Or2(ls["authToken"], GetAuthCookie(cookie, now))
        stored == StoredUserInfo(ls)
        fresh  == Truthy(token) /\ answer = "ok"
        info   == ProfileOf(token)
        \* JSON.stringify(userInfo)
        json   == IF info.username = "ann" THEN "{ann}" ELSE "{bob}"
        shown  == IF fresh
                    THEN [username  |-> Or3(info.username, info.name,
                                            stored.username),
                          userRole  |-> Or3(info.role, info.userRole,
                                            stored.userRole),
                          userEmail |-> Or3(info.email, info.userEmail,
                                            stored.userEmail)]
                    ELSE stored
    IN
    /\ page = "dashboard"
    /\ dash.state \notin {"none", "missingKey"}
    /\ ls' = IF fresh
               THEN [ls EXCEPT !["username"] = shown.username,
                               !["userRole"] = shown.userRole,
                               !["userEmail"] = shown.userEmail,
                               !["userInfo"] = json]
               ELSE ls
    /\ sidebar' = [by |-> "Dashboard",
                   sidebarUserName  |-> shown.username,
                   sidebarUserRole  |-> shown.userRole,
                   sidebarUserEmail |-> shown.userEmail]
    /\ UNCHANGED <<cookie, now, isDevelopment, page, pendingRedirect,
                   attemptsStore, login, dash, analytics, activity, hist>>
    /\ UNCHANGED <<scoutVars, logVars, userInfo, fetchVars, notifVars>>

\* A user logs in while no session is open: the first login of the tab, or a
\* login after a logout operation has ended the session before
LoginAfterLogout(user) ==
    /\ hist.session # "open"
    /\ HandleLoginSuccess(LoginOf(user))
(***************************************************************************)
(* Dashboard.safeFetch: one call, from the fetch to the value its promise  *)
(* settles with                                                            *)
(***************************************************************************)
\* the URLs Dashboard calls safeFetch with, less API_BASE
FetchUrls == {"/api/admin/dashboard", "/api/teams", "/api/whiteboards",
              "/api/login-history", "/health"}

HttpStatuses == {200, 204, 401, 404, 429, 500}

\* The body of a response: JSON text, text that is no JSON, or a stream that
\* fails while it is read
Bodies == {"json", "text", "broken"}

\* Response.ok
ResponseOk(status) == status >= 200 /\ status <= 299

\* at   where the call is: "idle", awaiting "fetch", "json" or "text", or
\*      "settled"
NoCall == [at |-> "idle", url |-> NULL, fetched |-> "no", status |-> 0,
           body |-> NULL, result |-> NULL]

RateLimit == [settled |-> "resolved", success |-> FALSE, error |-> "rate_limit",
              data |-> NULL]

ApiError == [settled |-> "resolved", success |-> FALSE, error |-> "api_error",
             data |-> NULL]

\* (a catch block that throws again)
NetworkError_Rethrown == [settled |-> "rejected", success |-> NULL,
                          error |-> NULL, data |-> NULL]

\* the catch block
NetworkError == [settled |-> "resolved", success |-> FALSE,
                 error |-> "network_error", data |-> NULL]

Success(body) == [settled |-> "resolved", success |-> TRUE, error |-> NULL,
                  data |-> body]

\* safeFetch(url, options) up to await fetch(...)
SafeFetch(url) ==
    /\ sf.at = "idle"
    /\ sf' = [NoCall EXCEPT !.at = "fetch", !.url = url]
    /\ UNCHANGED NotFetch

\* fetch rejects: the catch block
FetchRejects ==
    /\ sf.at = "fetch"
    /\ sf' = [sf EXCEPT !.at = "settled", !.fetched = "rejected",
                        !.result = NetworkError]
    /\ UNCHANGED NotFetch

\* fetch resolves: 429 returns at once, any other status reads the body
FetchResolves(status, body) ==
    /\ sf.at = "fetch"
    /\ sf' = IF status = 429
               THEN [sf EXCEPT !.at = "settled", !.fetched = "resolved",
                               !.status = status, !.body = body,
                               !.result = RateLimit]
               ELSE [sf EXCEPT !.at = IF ResponseOk(status) THEN "json" ELSE "text",
                               !.fetched = "resolved",
                               !.status = status, !.body = body]
    /\ UNCHANGED NotFetch

\* await response.json() settles
JsonSettles ==
    /\ sf.at = "json"
    /\ sf' = [sf EXCEPT !.at = "settled",
                        !.result = IF sf.body = "json" THEN Success(sf.body)
                                   ELSE NetworkError]
    /\ UNCHANGED NotFetch

\* await response.text() settles
TextSettles ==
    /\ sf.at = "text"
    /\ sf' = [sf EXCEPT !.at = "settled",
                        !.result = IF sf.body = "broken" THEN NetworkError
                                   ELSE ApiError]
    /\ UNCHANGED NotFetch

\* the caller has taken the result
SafeFetchReturns ==
    /\ sf.at = "settled"
    /\ sf' = NoCall
    /\ UNCHANGED NotFetch

InitFetch == sf = NoCall

NextFetch ==
    \/ \E url \in FetchUrls : SafeFetch(url)
    \/ FetchRejects
    \/ \E status \in HttpStatuses, body \in Bodies : FetchResolves(status, body)
    \/ JsonSettles
    \/ TextSettles
    \/ SafeFetchReturns

(***************************************************************************)
(* NotificationManager (notifications.js): the toasts of a page and the    *)
(* persistent ones kept in localStorage across pages                       *)
(***************************************************************************)
MaxHalfHours == 3   \* the clock advances in half hours up to this many

MAX_STORED_NOTIFICATIONS == 5

HalfHour == 30 * Minute

\* oneHour of loadStoredNotifications
OneHour == 60 * 60 * 1000

\* The texts page code shows; each is shown by page code once, so that a
\* text names one notification
Messages == {"saved", "locked"}

\* storeNotification: the list it writes, given the list it read
StoreNotification_NoEviction(stored, notification) == Append(stored, notification)

StoreNotification(stored, notification) ==
    Append(IF Len(stored) >= MAX_STORED_NOTIFICATIONS
             THEN SubSeq(stored, Len(stored) - (MAX_STORED_NOTIFICATIONS - 1) + 1,
                         Len(stored))
             ELSE stored,
           notification)

\* removeStoredNotification
RemoveStoredNotification(stored, message) ==
    SelectSeq(stored, LAMBDA n : n.message # message)

\* the filter of loadStoredNotifications
ValidNotifications(stored, t) ==
    SelectSeq(stored, LAMBDA n : t - n.timestamp < OneHour)

\* show(message, type, duration, persistent): the container and the store
\* after it
ShowToast(m, message, persistent) ==
    [m EXCEPT !.container = Append(@, [message |-> message,
                                       persistent |-> persistent])]

ShowStore(stored, message, persistent, t) ==
    IF persistent
      THEN StoreNotification(stored, [message |-> message, timestamp |-> t])
      ELSE stored

\* The manager of a page loaded with an empty store
FreshManager == [container |-> <<>>, timers |-> <<>>, at |-> 0]

\* shownAt    when page code called show() with the text, -1 if it has not
\* kept       the texts shown persistent=true and neither closed by the user
\*            nor on display or stored when clearAll ran
\* shownHere  the texts shown by page code on the present page
\* evicted    storeNotification has dropped an entry of a full list
NoNotifHistory == [shownAt |-> [x \in Messages |-> -1], kept |-> {},
                   shownHere |-> {}, evicted |-> FALSE]

Evicts(stored, persistent) ==
    persistent /\ Len(stored) >= MAX_STORED_NOTIFICATIONS

\* new NotificationManager(): createContainer and loadStoredNotifications,
\* which writes the valid notifications back and sets a timer for each
NotificationManagerConstruct ==
    /\ LET valid == ValidNotifications(nstore, now)
       IN  /\ nstore' = valid
           /\ nm' = [container |-> <<>>,
                     timers |-> [i \in 1..Len(valid) |-> valid[i].message],
                     at |-> now]
    /\ nhist' = [nhist EXCEPT !.shownHere = {}]
    /\ UNCHANGED now
    /\ UNCHANGED NotNotif

\* a timer of loadStoredNotifications: show(message, type, 0, true)
StoredTimerFires ==
    /\ nm.timers # <<>>
    /\ nm' = [ShowToast(nm, Head(nm.timers), TRUE) EXCEPT !.timers = Tail(@)]
    /\ nstore' = ShowStore(nstore, Head(nm.timers), TRUE, now)
    /\ nhist' = [nhist EXCEPT !.evicted = @ \/ Evicts(nstore, TRUE)]
    /\ UNCHANGED now
    /\ UNCHANGED NotNotif

\* page code calls show(message, type, duration, persistent)
Show(message, persistent) ==
    /\ nhist.shownAt[message] = -1
    /\ nm' = ShowToast(nm, message, persistent)
    /\ nstore' = ShowStore(nstore, message, persistent, now)
    /\ nhist' = [nhist EXCEPT !.shownAt[message] = now,
                              !.kept = IF persistent THEN @ \cup {message} ELSE @,
                              !.shownHere = @ \cup {message},
                              !.evicted = @ \/ Evicts(nstore, persistent)]
    /\ UNCHANGED now
    /\ UNCHANGED NotNotif

\* the timer show() sets for a notification that is not persistent, and
\* removeNotification
DurationElapses(i) ==
    /\ i \in 1..Len(nm.container)
    /\ ~nm.container[i].persistent
    /\ nm' = [nm EXCEPT !.container = Without(@, i)]
    /\ UNCHANGED <<nstore, nhist, now>>
    /\ UNCHANGED NotNotif

\* a click on the close button of the i-th toast
Close(i) ==
    /\ i \in 1..Len(nm.container)
    /\ nm' = [nm EXCEPT !.container = Without(@, i)]
    /\ nstore' = IF nm.container[i].persistent
                   THEN RemoveStoredNotification(nstore, nm.container[i].message)
                   ELSE nstore
    /\ nhist' = [nhist EXCEPT !.kept = @ \ {nm.container[i].message}]
    /\ UNCHANGED now
    /\ UNCHANGED NotNotif

\* clearAll
ClearAll ==
    /\ nm' = [nm EXCEPT !.container = <<>>]
    /\ nstore' = <<>>
    /\ nhist' = [nhist EXCEPT !.kept = {}]
    /\ UNCHANGED now
    /\ UNCHANGED NotNotif

\* time passes; the timers of loadStoredNotifications, due after 100 ms, have
\* fired by then
HalfHourPasses ==
    /\ now < MaxHalfHours * HalfHour
    /\ nm.timers = <<>>
    /\ now' = now + HalfHour
    /\ UNCHANGED notifVars
    /\ UNCHANGED NotNotif

IdleNotif ==
    /\ nstore = <<>>
    /\ nm = FreshManager
    /\ nhist = NoNotifHistory

NextNotif ==
    \/ NotificationManagerConstruct
    \/ StoredTimerFires
    \/ \E message \in Messages, persistent \in BOOLEAN : Show(message, persistent)
    \/ \E i \in 1..(MAX_STORED_NOTIFICATIONS + 2) : DurationElapses(i)
    \/ \E i \in 1..(MAX_STORED_NOTIFICATIONS + 2) : Close(i)
    \/ ClearAll
    \/ HalfHourPasses

(***************************************************************************)
(* Specifications.  Each one runs the operations of one part of the panel, *)
(* the objects of the other parts stay as they are.                        *)
(***************************************************************************)
\* The tab showing page p at instant t, nobody logged in
TabAt(p, t) ==
    /\ ls = EmptyStorage
    /\ cookie = NoCookie
    /\ now = t
    /\ page = p
    /\ pendingRedirect = NULL
    /\ login = FreshLogin
    /\ dash = FreshDash
    /\ analytics = FreshAnalytics
    /\ activity = FreshActivity
    /\ attemptsStore = NoAttempts
    /\ hist = NoHistory

\* scripts not running
IdleScout ==
    /\ sm = FreshScouting
    /\ sdom = FreshScoutingDom
    /\ teamsFetch = <<>>
    /\ shist = NoScoutHistory

IdleLogs ==
    /\ alm = FreshLogsManager
    /\ adom = ServedLogsDom
    /\ logCalls = <<>>
    /\ lhist = NoLogHistory

\* ---- the session: login, the pages' authentication checks, logout --------
Init ==
    /\ TabAt("login", 0)
    /\ isDevelopment \in BOOLEAN
    /\ IdleScout /\ IdleLogs /\ IdleUser /\ InitFetch /\ IdleNotif

Next ==
    \/ Tick
    \/ \E p \in Pages : Navigate(p)
    \/ RedirectFires
    \/ LoginConstruct
    \/ \E ok \in BOOLEAN : CheckAuthStatusDone(ok)
    \/ \E userData \in LoginResponses : HandleLoginSuccess(userData)
    \/ Logout
    \/ DashboardConstruct
    \/ \E outcome \in {"ok", "rejected", "error"} : ValidateApiKeyDone(outcome)
    \/ DashboardPerformLogout
    \/ ActivityPerformLogout
    \/ ActivityConstruct
    \/ \E outcome \in {"ok", "unauthorized", "error"} : ActivityProfileDone(outcome)
    \/ AnalyticsConstruct
    \/ \E ok \in BOOLEAN : AnalyticsVerifyDone(ok)
    \/ AnalyticsPerformLogout

Spec == Init /\ [][Next]_vars

\* ---- Scouting.html ---------------------------------------------------------
InitScoutPage ==
    /\ TabAt("scouting", 0)
    /\ isDevelopment = FALSE
    /\ InitScout /\ IdleLogs /\ IdleUser /\ InitFetch /\ IdleNotif

SpecScout == InitScoutPage /\ [][NextScout]_vars

\* ---- Activity.html: the logs ----------------------------------------------
InitLogsPage ==
    /\ TabAt("activity", ActivityOpenedAt)
    /\ isDevelopment = FALSE
    /\ InitLogs /\ IdleScout /\ IdleUser /\ InitFetch /\ IdleNotif

SpecLogs == InitLogsPage /\ [][NextLogs]_vars

\* ---- updateUserDisplay on every userInfo -----------------------------------
InitUserDisplay ==
    /\ TabAt("scouting", 0)
    /\ isDevelopment = FALSE
    /\ InitUser /\ IdleScout /\ IdleLogs /\ InitFetch /\ IdleNotif

SpecUser == InitUserDisplay /\ [][NextUser]_vars

\* ---- Dashboard.safeFetch ---------------------------------------------------
InitSafeFetch ==
    /\ TabAt("dashboard", 0)
    /\ isDevelopment = FALSE
    /\ InitFetch /\ IdleScout /\ IdleLogs /\ IdleUser /\ IdleNotif

SpecFetch == InitSafeFetch /\ [][NextFetch]_vars

\* ---- notifications.js on the pages of the panel ------------------------------
InitNotifications ==
    /\ TabAt("dashboard", 0)
    /\ isDevelopment = FALSE
    /\ IdleNotif /\ IdleScout /\ IdleLogs /\ IdleUser /\ InitFetch

SpecNotif == InitNotifications /\ [][NextNotif]_vars

\* ---- the login form: attempts, lock, rate limit -----------------------------
\* a submitted login is answered with success
LoginAccepted ==
    /\ login.isLoggingIn
    /\ HandleLoginSuccess(AcceptedLogin)

InitLogin ==
    /\ TabAt("login", 0)
    /\ isDevelopment \in BOOLEAN
    /\ IdleScout /\ IdleLogs /\ IdleUser /\ InitFetch /\ IdleNotif

NextLogin ==
    \/ FiveMinutesPass
    \/ Navigate("login")
    \/ RedirectFires
    \/ LoginConstruct
    \/ \E u \in Usernames : TypeUsername(u)
    \/ \E p \in Passwords : TypePassword(p)
    \/ ToggleAgreeToS
    \/ TurnstileCallback("cf-token")
    \/ HandleLogin
    \/ LoginAccepted
    \/ HandleLoginFailure
    \/ \E kind \in {"http401", "http500", "network"} : HandleLoginError(kind)

SpecLogin == InitLogin /\ [][NextLogin]_vars

\* ---- the login form under rate limiting -------------------------------------
InitRateLimit ==
    /\ TabAt("login", 0)
    /\ isDevelopment = FALSE
    /\ IdleScout /\ IdleLogs /\ IdleUser /\ InitFetch /\ IdleNotif

NextRateLimit ==
    \/ Navigate("login")
    \/ LoginConstruct
    \/ \E u \in Usernames : TypeUsername(u)
    \/ \E p \in Passwords : TypePassword(p)
    \/ ToggleAgreeToS
    \/ TurnstileCallback("cf-token")
    \/ HandleLogin
    \/ \E kind \in {"http401", "network"} : HandleLoginError(kind)
    \/ \E seconds \in 1..MaxRetryAfter : RateLimited(seconds)
    \/ \E i \in 1..MaxCountdowns : UpdateTimer(i)

SpecRateLimit == InitRateLimit /\ [][NextRateLimit]_vars

\* ---- the session timer of the login page -------------------------------------
InitSession ==
    /\ TabAt("login", 0)
    /\ isDevelopment = FALSE
    /\ IdleScout /\ IdleLogs /\ IdleUser /\ InitFetch /\ IdleNotif

NextSession ==
    \/ Tick
    \/ Navigate("login")
    \/ RedirectFires
    \/ LoginConstruct
    \/ \E ok \in BOOLEAN : CheckAuthStatusDone(ok)
    \/ HandleLoginSuccess(AcceptedLogin)
    \/ Logout
    \/ VisibilityChange

SpecSession == InitSession /\ [][NextSession]_vars


\* ---- one user after another in the same browser -----------------------------
InitIdentity ==
    /\ TabAt("login", 0)
    /\ isDevelopment = FALSE
    /\ IdleScout /\ IdleLogs /\ IdleUser /\ InitFetch /\ IdleNotif

NextIdentity ==
    \/ Tick
    \/ \E p \in Pages : Navigate(p)
    \/ RedirectFires
    \/ LoginConstruct
    \/ \E user \in Users : LoginAfterLogout(user)
    \/ Logout
    \/ DashboardConstruct
    \/ \E answer \in {"ok", "unavailable"} : DashboardLoadUserInfo(answer)
    \/ DashboardPerformLogout
    \/ ActivityPerformLogout
    \/ AnalyticsPerformLogout

SpecIdentity == InitIdentity /\ [][NextIdentity]_vars
(***************************************************************************)
(* Claims about the session                                                *)
(***************************************************************************)
\* C1: in every reachable state the localStorage keys adminToken and
\* authToken are either both absent or both hold the same token.
C1_TokensAgree == ls["adminToken"] = ls["authToken"]

\* C2: a Dashboard constructed after a logout operation and before the next
\* successful login finds no API key, takes the handleMissingApiKey path and
\* issues no data request.
C2_NoKeyAfterLogout ==
    (dash.state # "none" /\ dash.born.session = "closed")
        => (dash.state = "missingKey" /\ "data" \notin dash.requests)

\* C3 as stated: on a non-development host every Dashboard constructed
\* between handleLoginSuccess and the next logout passes checkAuth and
\* proceeds to loadDashboardData, however much time has elapsed.
\* (A session is the stored access token: the login stored one and nothing but
\* a logout could have ended it.)
C3_UsableUntilLogout ==
    (/\ ~isDevelopment
     /\ dash.state # "none"
     /\ dash.born.session = "open"
     /\ dash.born.hasToken
     /\ ~dash.born.damaged)
        => (dash.state = "loaded" /\ "data" \in dash.requests)

\* C3 as amended: on a non-development host a Dashboard constructed in a
\* session opened by a login that stored a token, before any logout,
\* handleMissingApiKey, failed checkAuthStatus or localStorage.clear(),
\* passes checkAuth and proceeds to loadDashboardData exactly when it is
\* constructed less than SESSION_TIMEOUT after that login.
C3_UsableWithinTimeout ==
    (/\ ~isDevelopment
     /\ dash.state # "none"
     /\ dash.born.session = "open"
     /\ dash.born.hasToken
     /\ ~dash.born.damaged)
        => ((dash.at < dash.born.loginAt + SESSION_TIMEOUT)
               <=> (dash.state = "loaded" /\ "data" \in dash.requests))

\* A Dashboard loaded four minutes into such a session.
C3_Witness ==
    /\ ~isDevelopment
    /\ dash.state = "loaded"
    /\ dash.born.session = "open"
    /\ dash.born.hasToken
    /\ ~dash.born.damaged
    /\ dash.at = dash.born.loginAt + 4 * Minute

\* C18: a Dashboard constructed when neither adminToken nor authToken is in
\* localStorage does not initialize: it issues no API request, the keys
\* admin_session_active, adminToken and authToken are removed, and the redirect
\* to index.html is under way.
C18_NoKeyNoDashboard ==
    dash.state = "missingKey"
        => (/\ dash.requests = {}
            /\ ~dash.validating
            /\ \A k \in {"admin_session_active", "adminToken", "authToken"} :
                    ls[k] = NULL
            /\ pendingRedirect = "login")

\* the Dashboard of a session whose login stored no token, so that
\* admin_session_active and the cookie were there to remove
C18_Witness ==
    /\ dash.state = "missingKey"
    /\ dash.born.session = "open"
    /\ ~dash.born.hasToken
    /\ ~dash.born.damaged
    /\ cookie = NoCookie

\* C21: at every moment at most one session timer is pending, and none is
\* pending while the document is hidden or while isAuthenticated is false.
C21_OneTimerWhileVisible ==
    /\ Len(login.timeouts) <= 1
    /\ login.hidden => login.timeouts = <<>>
    /\ ~login.isAuthenticated => login.timeouts = <<>>

(***************************************************************************)
(* Claims about ScoutingManager, checked under SpecScout                   *)
(***************************************************************************)
\* the values of the four filter inputs
FilterInputs(d) == <<d.teamSearch, d.reliabilityFilter, d.scoutFilter, d.dateFilter>>

\* C5: applyFilters is idempotent: when filteredTeams and currentSort are as
\* an applyFilters call left them, a further applyFilters call with allTeams
\* and the filter inputs unchanged leaves filteredTeams (members and order)
\* and currentSort (field and direction) as they are.
C5_ApplyFiltersIdempotent ==
    [][(/\ shist.applied /\ shist.settled
        /\ shist'.applied /\ shist'.settled
        /\ sm'.allTeams = sm.allTeams
        /\ FilterInputs(sdom') = FilterInputs(sdom))
       => (/\ sm'.filteredTeams = sm.filteredTeams
           /\ sm'.currentSort = sm.currentSort)]_vars

\* C6: whenever filteredTeams is empty after a render, and so when loadTeams
\* finishes on an empty array, teamsCount reads '0 teams'.
C6_ZeroTeamsShown ==
    (shist.rendered /\ Len(sm.filteredTeams) = 0) => sdom.teamsCount = ZeroTeams

\* C6 witness: loadTeams has finished with no teams and no failure notice,
\* the grid is rendered empty and the count reads '0 teams'.
C6_Witness ==
    /\ teamsFetch = <<>>
    /\ shist.rendered
    /\ sm.allTeams = <<>>
    /\ sdom.notifications = <<>>
    /\ sdom.grid.empty
    /\ sdom.teamsCount = ZeroTeams

\* how often team occurs in teams
Occurrences(teams, team) == Cardinality({i \in 1..Len(teams) : teams[i] = team})

\* The search, reliability and scout tests as claim C7 words them, letter
\* case aside
MatchesButDate(team, d) ==
    LET search == ToLowerCase(d.teamSearch)
        scoutName == ToLowerCase(ScoutNameOf(team))
    IN  /\ search # Empty =>
              \/ Includes(ToLowerCase(TeamNumberStr(team)), search)
              \/ Includes(ToLowerCase(StrOr2(team.teamName, team.name)), search)
              \/ Includes(scoutName, search)
        /\ d.reliabilityFilter # Empty => team.reliability = d.reliabilityFilter
        /\ d.scoutFilter # Empty => scoutName = ToLowerCase(d.scoutFilter)

\* filteredTeams holds the teams of allTeams that satisfy Keep, each as often
\* as allTeams does, and nothing else
HoldsExactly(Keep(_)) ==
    \A team \in {sm.allTeams[i] : i \in 1..Len(sm.allTeams)}
                  \cup {sm.filteredTeams[i] : i \in 1..Len(sm.filteredTeams)} :
        Occurrences(sm.filteredTeams, team) =
            IF Keep(team) THEN Occurrences(sm.allTeams, team) ELSE 0

\* C7 as stated: after applyFilters, filteredTeams holds exactly the teams of
\* allTeams that match every active filter, the date filter being that the
\* team's date begins with the selected date.
C7_ExactlyTheMatches ==
    shist.applied =>
        HoldsExactly(LAMBDA team :
            /\ MatchesButDate(team, sdom)
            /\ sdom.dateFilter # Empty => StartsWith(DateOf(team), sdom.dateFilter))

\* C7 amended: the date filter passes a team that has no date at all.
C7_ExactlyTheMatchesOrUndated ==
    shist.applied =>
        HoldsExactly(LAMBDA team :
            /\ MatchesButDate(team, sdom)
            /\ (sdom.dateFilter # Empty /\ DateOf(team) # Empty)
                  => StartsWith(DateOf(team), sdom.dateFilter))

\* C7 witness: under an active date filter applyFilters has kept a team
\* without a date and dropped a team of another date.
C7_Witness ==
    /\ shist.applied
    /\ sdom.dateFilter # Empty
    /\ \E i \in 1..Len(sm.filteredTeams) : DateOf(sm.filteredTeams[i]) = Empty
    /\ \E i \in 1..Len(sm.allTeams) :
          /\ DateOf(sm.allTeams[i]) # Empty
          /\ Occurrences(sm.filteredTeams, sm.allTeams[i]) = 0

\* the error notification of loadTeams is on show, n times
FailureNotices ==
    Cardinality({i \in 1..Len(sdom.notifications) :
                    sdom.notifications[i] = "Failed to load scouting data"})

\* C11: a loadTeams call sends exactly one GET /api/teams; when the request
\* fails allTeams becomes empty, one error notification is shown, and the
\* failure leaves no request sent or scheduled in its place.
C11_OneRequestNoRetry ==
    [][/\ Len(teamsFetch') > Len(teamsFetch)
            => Len(teamsFetch') = Len(teamsFetch) + 1
       /\ FailureNotices' > 0
            => (/\ Len(teamsFetch') = Len(teamsFetch) - 1
                /\ sm'.allTeams = <<>>
                /\ FailureNotices' = 1)]_vars

\* C11 witness: a failed loadTeams has finished: no request is left, there
\* are no teams and the error notification is shown once.
C11_Witness ==
    /\ teamsFetch = <<>>
    /\ sm.allTeams = <<>>
    /\ FailureNotices = 1
    /\ sdom.totalTeams = 0

(***************************************************************************)
(* Claims about ActivityLogsManager, checked under SpecLogs                *)
(***************************************************************************)
\* allLogs as loadActivityLogs makes it of an answer
ExpectedLogs(answer) ==
    CASE answer.source = "dashboard" -> DashboardLogs(answer.logs)
      [] answer.source = "history" -> HistoryLogs(answer.logs)
      [] OTHER -> <<>>

\* The table shows the rows of exactly those of `logs` that pass the filter
\* inputs (one page holds them all); said only when no typed filter waits for
\* its debounce timer
TableHolds(logs) ==
    ~alm.filterTimeout =>
        {adom.logsTableBody.rows[i] : i \in 1..Len(adom.logsTableBody.rows)}
            = {logs[i].id : i \in {j \in 1..Len(logs) : LogMatches(logs[j], adom)}}

\* C4 as stated: when loadActivityLogs calls have been in flight together,
\* once all have completed allLogs and the table hold the data returned to
\* the call that was started last.
C4_LastStartedWins ==
    (logCalls = <<>> /\ lhist.raced)
        => (/\ alm.allLogs = ExpectedLogs(lhist.latest)
            /\ TableHolds(ExpectedLogs(lhist.latest)))

\* C4 amended: they hold the data returned to the call that completed last.
C4_LastCompletedWins ==
    (logCalls = <<>> /\ lhist.raced)
        => (/\ alm.allLogs = ExpectedLogs(lhist.last)
            /\ TableHolds(ExpectedLogs(lhist.last)))

\* C4 witness: two calls raced, the one started last completed first, and
\* the page is left with the rows of the older call's answer.
C4_Witness ==
    /\ logCalls = <<>>
    /\ lhist.raced
    /\ ExpectedLogs(lhist.latest) # ExpectedLogs(lhist.last)
    /\ alm.allLogs = ExpectedLogs(lhist.last)
    /\ adom.logsTableBody.kind = "rows"

\* C10: at the moment a loadActivityLogs call that failed finishes, the table
\* body shows the 'Failed to Load Activity Logs' row with its Retry button.
C10_ErrorRowShown ==
    lhist.finished = "failed" => adom.logsTableBody.kind = "error"

(***************************************************************************)
(* Claims about updateUserDisplay, checked under SpecUser                  *)
(***************************************************************************)
NonEmpty(v) == v # NULL /\ v # ""

FirstNonEmpty(first, second, default) ==
    IF NonEmpty(first) THEN first
    ELSE IF NonEmpty(second) THEN second
    ELSE default

\* C8: updateUserDisplay shows for name, role and email the first non-empty
\* value among username then name, role then userRole, email then userEmail,
\* and otherwise 'Admin User', 'Administrator', 'admin@teamsheldon.tech'; no
\* sidebar field is set to an empty value.
C8_FirstNonEmptyShown ==
    sidebar.by # "none" =>
        /\ sidebar.sidebarUserName =
              FirstNonEmpty(userInfo.username, userInfo.name, "Admin User")
        /\ sidebar.sidebarUserRole =
              FirstNonEmpty(userInfo.role, userInfo.userRole, "Administrator")
        /\ sidebar.sidebarUserEmail =
              FirstNonEmpty(userInfo.email, userInfo.userEmail,
                            "admin@teamsheldon.tech")
        /\ NonEmpty(sidebar.sidebarUserName)
        /\ NonEmpty(sidebar.sidebarUserRole)
        /\ NonEmpty(sidebar.sidebarUserEmail)

\* C8 witness: ActivityLogsManager has displayed a userInfo whose username is
\* the empty string, whose role fields are both missing and whose email is
\* set: the name is the second synonym, the role the default, the email the
\* first synonym.
C8_Witness ==
    /\ sidebar.by = "ActivityLogsManager"
    /\ userInfo.username = "" /\ userInfo.name = "Sheldon C"
    /\ userInfo.role = NULL /\ userInfo.userRole = NULL
    /\ userInfo.email = "s@teamsheldon.tech"
    /\ sidebar.sidebarUserName = "Sheldon C"
    /\ sidebar.sidebarUserRole = "Administrator"
    /\ sidebar.sidebarUserEmail = "s@teamsheldon.tech"

(***************************************************************************)
(* Claims about Dashboard.safeFetch, checked under SpecFetch               *)
(***************************************************************************)
\* the response arrived with a status other than 2xx and 429
OtherNonOk == sf.fetched = "resolved" /\ ~ResponseOk(sf.status) /\ sf.status # 429

\* An exception was thrown inside safeFetch: fetch rejected, the body of an
\* ok response did not parse, or the body of a response could not be read
Threw ==
    \/ sf.fetched = "rejected"
    \/ sf.fetched = "resolved" /\ ResponseOk(sf.status) /\ sf.body # "json"
    \/ OtherNonOk /\ sf.body = "broken"

\* What C9 says of every outcome but the other non-ok statuses
SettlesAsClaimed ==
    /\ sf.result.settled = "resolved"
    /\ sf.result.success \in BOOLEAN
    /\ (sf.fetched = "resolved" /\ sf.status = 429)
          => sf.result.error = "rate_limit"
    /\ Threw => sf.result.error = "network_error"
    /\ sf.result.success <=>
          (sf.fetched = "resolved" /\ ResponseOk(sf.status) /\ sf.body = "json")

\* C9 as stated: safeFetch never rejects and resolves to an object with a
\* boolean success; 429 gives 'rate_limit', any other non-ok status
\* 'api_error', a thrown exception 'network_error', and success is true only
\* for an ok response whose JSON parsed.
C9_ErrorKinds ==
    sf.at = "settled" =>
        /\ SettlesAsClaimed
        /\ OtherNonOk => sf.result.error = "api_error"

\* C9 amended: any other non-ok status whose body could be read gives
\* 'api_error'.
C9_ErrorKindsBodyRead ==
    sf.at = "settled" =>
        /\ SettlesAsClaimed
        /\ (OtherNonOk /\ sf.body # "broken") => sf.result.error = "api_error"

\* C9 witness: a 500 response whose body could not be read has settled
\* safeFetch with 'network_error'.
C9_Witness ==
    /\ sf.at = "settled"
    /\ sf.status = 500 /\ sf.body = "broken"
    /\ sf.result.settled = "resolved"
    /\ sf.result.error = "network_error"

(***************************************************************************)
(* Claims about the notifications                                          *)
(***************************************************************************)
\* how many toasts of the container carry the text
Toasts(message) ==
    Cardinality({i \in 1..Len(nm.container) : nm.container[i].message = message})

Stored(message) ==
    \E i \in 1..Len(nstore) : nstore[i].message = message

\* the manager was constructed by a page load after the text was shown, and
\* its timers have fired
LaterLoad(message) ==
    /\ nhist.shownAt[message] >= 0
    /\ message \notin nhist.shownHere
    /\ nm.timers = <<>>

\* C12: a notification shown with persistent=true, and neither closed by the
\* user nor removed by clearAll, is displayed exactly once by each
\* NotificationManager constructed on a later page load within the following
\* hour.
C12_DisplayedOncePerLoad ==
    \A message \in nhist.kept :
        (LaterLoad(message) /\ nm.at - nhist.shownAt[message] < OneHour)
            => Toasts(message) = 1

\* C13: a persistent notification is no longer displayed, and no longer
\* stored, by any NotificationManager constructed more than one hour after
\* the notification was originally shown, however many page loads happened in
\* between.
C13_GoneAfterOneHour ==
    \A message \in Messages :
        (/\ nhist.shownAt[message] >= 0
         /\ message \notin nhist.shownHere
         /\ nm.at - nhist.shownAt[message] > OneHour)
            => (/\ Toasts(message) = 0
                /\ ~Stored(message)
                /\ \A i \in 1..Len(nm.timers) : nm.timers[i] # message)

\* C14: starting from an empty store, the list stored under
\* 'admin_notifications' never has more than MAX_STORED_NOTIFICATIONS entries,
\* and a step that stores a notification in a full list drops the first entry,
\* which no entry of the list is older than, and keeps the others in order.
C14_AtMostFiveOldestEvicted ==
    [][/\ Len(nstore') <= MAX_STORED_NOTIFICATIONS
       /\ (Len(nstore) = MAX_STORED_NOTIFICATIONS /\ Len(nstore') = Len(nstore)
             /\ nstore' # nstore)
            => (/\ SubSeq(nstore', 1, Len(nstore) - 1) = Tail(nstore)
                /\ \A i \in 1..Len(nstore) :
                        nstore[1].timestamp <= nstore[i].timestamp)]_vars

\* an entry has been evicted, and the full list holds both texts
C14_Witness ==
    /\ nhist.evicted
    /\ Len(nstore) = MAX_STORED_NOTIFICATIONS
    /\ Cardinality({nstore[i].message : i \in 1..Len(nstore)}) = 2
    /\ nstore[1].timestamp < nstore[MAX_STORED_NOTIFICATIONS].timestamp

(***************************************************************************)
(* Claims about the login form                                             *)
(***************************************************************************)
\* the step sends an authentication request
SendsAuthRequest == ~login.isLoggingIn /\ login'.isLoggingIn

\* the lock lockAccount stored
LockStored == attemptsStore.present /\ attemptsStore.count >= MAX_LOGIN_ATTEMPTS

LockInForce == LockStored /\ now - attemptsStore.timestamp <= LOCKOUT_DURATION

\* C15: once loginAttempts has reached MAX_LOGIN_ATTEMPTS, no step sends an
\* authentication request while the lock is in force, on the page that set the
\* lock or on a page loaded within LOCKOUT_DURATION of it.
C15_NoRequestWhileLocked ==
    [][LockInForce => ~SendsAuthRequest]_vars

\* a page loaded while the lock is in force, at the last instant of it, with
\* the form filled in and the button enabled
C15_Witness ==
    /\ LockInForce
    /\ now = attemptsStore.timestamp + LOCKOUT_DURATION
    /\ login.constructed /\ login.answer = NULL
    /\ login.loginAttempts = MAX_LOGIN_ATTEMPTS
    /\ ~login.loginBtnDisabled

\* C16: once LOCKOUT_DURATION has elapsed since the lock was set, handleLogin
\* no longer returns at isLocked(), with or without a page reload in between.
C16_UnlockedAfterLockout ==
    (/\ login.constructed
     /\ LockStored
     /\ now - attemptsStore.timestamp > LOCKOUT_DURATION)
        => ~IsLocked(login)

\* C17: after an answer 429 no step sends an authentication request until the
\* countdown of startRateLimitTimer has reached zero.
C17_NoRequestDuringCountdown ==
    [][CountdownRunning(login) => ~SendsAuthRequest]_vars

\* C19: on a development host the credentials dev / dev123 with the Terms of
\* Service accepted pass validateCredentials and leave the login button
\* enabled, without a Turnstile token.
C19_DevCredentialsPass ==
    (/\ isDevelopment
     /\ login.constructed /\ ~login.isLoggingIn
     /\ login.username = Dev /\ login.password = Dev123 /\ login.agreeToS
     /\ login.turnstileToken = NULL)
        => (/\ ValidateCredentials(Credentials(login), isDevelopment)
            /\ ~login.loginBtnDisabled)

\* C20: every login attempt the server rejects, by HTTP 401 or by an ok answer
\* with success=false, increments loginAttempts by exactly one.
C20_RejectionCounts ==
    [][(/\ login.isLoggingIn /\ ~login'.isLoggingIn
        /\ login'.answer \in {"http401", "failure"})
          => login'.loginAttempts = login.loginAttempts + 1]_vars

\* C23: at most one authentication request of handleLogin is in flight at a
\* time, and once the request is answered and handleLogin has returned
\* isLoggingIn is false.
C23_OneRequestAtATime ==
    /\ login.inFlight <= 1
    /\ login.inFlight = 0 => ~login.isLoggingIn

\* a submit after a call that ended in a thrown error has sent its request,
\* while a field of the form changed and validateForm enabled the button
C23_Witness ==
    /\ login.answer = "network"
    /\ login.isLoggingIn /\ login.inFlight = 1
    /\ ~login.loginBtnDisabled

\* C22: every interval of startRateLimitTimer is cleared when its own
\* countdown reaches zero: once no countdown is still running no interval is
\* set, and 'Ready' has been shown once per countdown started.
C22_IntervalsCleared ==
    (login.started > 0 /\ ~CountdownRunning(login))
        => (login.intervals = <<>> /\ login.ready = login.started)

(***************************************************************************)
(* Claims about the identity the sidebar shows                             *)
(***************************************************************************)
\* what the login and the profile of a user of Users hold of that user
IdentityOf(user) ==
    LET info == ProfileOf(TokenOf(user))
    IN  {user.name, user.email, user.role, LocalPart(user.email),
         info.username, info.name, info.role, info.email} \ {NULL}

\* the sidebar shows a name, a role or an address of user
Displays(sb, user) ==
    \/ sb.sidebarUserName \in IdentityOf(user)
    \/ sb.sidebarUserRole \in IdentityOf(user)
    \/ sb.sidebarUserEmail \in IdentityOf(user)

\* C24: once a logout operation has ended the session of user A and another
\* user B has logged in, a sidebar written during B's session shows no
\* username, role or address of A, whether the profile endpoint answers or
\* not.
C24_NoIdentityOfPreviousUser ==
    [][\A a \in Users, b \in Users :
          (/\ a # b
           /\ hist.session = "open"
           /\ ls["authToken"] = TokenOf(b)
           /\ sidebar' # sidebar)
          => ~Displays(sidebar', a)]_vars
====
